---- MODULE Spec2Model ----
(***************************************************************************)
(* Model of the RustWebservice request-lifecycle engine: route             *)
(* registration (webserver/mod.rs), the per-connection worker loop         *)
(* (WebServer::start), Client::handle with routing and dispatch            *)
(* (client_handling/mod.rs), the static file resolver (files/mod.rs), the  *)
(* forward proxy client (proxy/mod.rs) and the response serializer         *)
(* (responses/mod.rs).                                                     *)
(*                                                                         *)
(* Text is modelled as a sequence of atoms.  The atoms "/", ":", "\r" and  *)
(* "\n" are the delimiter characters the code splits on; every other atom  *)
(* is a letter or a delimiter-free word.  Option<T> is a sequence of       *)
(* length 0 (None) or 1 (Some).                                            *)
(***************************************************************************)
EXTENDS Integers, Sequences, FiniteSets, TLC

VARIABLES
    phase,      \* "config" while main registers routes, "serving" after start()
    domains,    \* WebServer.domains: Domain -> ordered list of Route
    pc,         \* position of the connection's worker thread
    i,          \* the loop counter of the worker loop in WebServer::start
    ret,        \* what the last Client::handle call returned to the loop
    request,    \* Option: the request parsed by the last Client::handle call
    dispatch,   \* what handle_routing did for that request
    written,    \* Option: the response send_response wrote in that call
    sent,       \* the number of responses written to the connection
    poisoned,   \* whether a panic unwound through a held guard of Client.domains
    middleware, \* WebServer.middleware: the ordered list of Middleware entries
    ran,        \* the middleware entries run by the last Client::handle call
    tls,        \* Client.tls_config, Client.tls_connection and the handshakes made
    resp,       \* an HTTPResponse under construction (responses/mod.rs)
    wire,       \* Option: the bytes HTTPResponse::to_bytes produced for it
    chunks,     \* the chunks of an upstream body (proxy/mod.rs)
    encoded,    \* Option: the bytes of their chunked coding
    decoded,    \* Option: what decode_chunked_body returned for those bytes
    stream,     \* the segments a client has sent that the socket still holds
    handed,     \* Option: the bytes the last read handed to the parser
    holder,     \* lock -> Option: the thread holding the Mutex
    tpc,        \* thread -> its position in a registration call or in Client::handle
    seen        \* worker -> Option: the route list it read under its guard

serverVars == <<phase, domains, pc, i, ret, request, dispatch, written, sent,
                poisoned, middleware, ran, tls>>
builderVars == <<resp, wire>>
codecVars == <<chunks, encoded, decoded>>
readerVars == <<stream, handed>>
lockVars == <<holder, tpc, seen>>
vars == <<phase, domains, pc, i, ret, request, dispatch, written, sent,
          poisoned, middleware, ran, tls, resp, wire, chunks, encoded, decoded,
          stream, handed, holder, tpc, seen>>

----------------------------------------------------------------------------
(* Bounds *)

MaxRoutes == 2      \* registration calls made before start()
MaxExchanges == 2   \* Client::handle calls on the connection

----------------------------------------------------------------------------
(* Generic helpers on sequences of atoms *)

None == <<>>
Some(x) == <<x>>

starts_with(s, p) ==
    /\ Len(p) <= Len(s)
    /\ SubSeq(s, 1, Len(p)) = p

\* str::strip_prefix(prefix).unwrap_or(s)
strip_prefix_or(s, p) ==
    IF starts_with(s, p) THEN SubSeq(s, Len(p) + 1, Len(s)) ELSE s

\* index of the first occurrence of atom c in s, 0 when there is none
RECURSIVE FindFrom(_, _, _)
FindFrom(s, c, k) ==
    IF k > Len(s) THEN 0
    ELSE IF s[k] = c THEN k
    ELSE FindFrom(s, c, k + 1)

Find(s, c) == FindFrom(s, c, 1)

\* str::trim_start_matches(c)
RECURSIVE trim_start_matches(_, _)
trim_start_matches(s, c) ==
    IF s # <<>> /\ s[1] = c THEN trim_start_matches(Tail(s), c) ELSE s

----------------------------------------------------------------------------
(* Domains, methods, status codes *)

BaseDomain == <<"localhost">>                 \* ServerConfig.base_domain
SubName == <<"Api">>                          \* a Domain given to add_subdomain_router
SubDomain == <<"api", ".", "localhost">>      \* the generated subdomain

\* str::to_lowercase on the atoms used in domain names
to_lowercase_atom(a) ==
    CASE a = "Api" -> "api"
      [] a = "HTTP" -> "http"
      [] a = "Http" -> "http"
      [] a = "HTTPS" -> "https"
      [] OTHER -> a

to_lowercase(s) == [k \in 1..Len(s) |-> to_lowercase_atom(s[k])]

Methods == {"GET", "HEAD", "OPTIONS", "TRACE", "PUT", "DELETE", "POST", "PATCH", "CONNECT"}

Ok == 200
Created == 201
NotFound == 404
MethodNotAllowed == 405
InternalServerError == 500
TemporaryRedirect == 307
PermanentRedirect == 308
BadRequest == 400
BadGateway == 502

----------------------------------------------------------------------------
(* Routes: webserver/route/mod.rs *)

new_file(route, method, response_code, domain, content) ==
    [route |-> route, domain |-> domain, method |-> method,
     route_type |-> "File", status_code |-> response_code,
     external |-> None, content |-> Some(content), folder |-> None, f |-> None]

new_custom(route, method, response_code, domain, f) ==
    [route |-> route, domain |-> domain, method |-> method,
     route_type |-> "Custom", status_code |-> response_code,
     external |-> None, content |-> None, folder |-> None, f |-> Some(f)]

new_static(route, method, response_code, domain, folder) ==
    [route |-> route, domain |-> domain, method |-> method,
     route_type |-> "Static", status_code |-> response_code,
     external |-> None, content |-> None, folder |-> Some(folder), f |-> None]

new_error(method, domain, response_code, content) ==
    [route |-> <<>>, domain |-> domain, method |-> method,
     route_type |-> "Error", status_code |-> response_code,
     external |-> None, content |-> Some(content), folder |-> None, f |-> None]

new_proxy(route, method, domain, response_code, external) ==
    [route |-> route, domain |-> domain, method |-> method,
     route_type |-> "Proxy", status_code |-> response_code,
     external |-> Some(external), content |-> None, folder |-> None, f |-> None]

----------------------------------------------------------------------------
(* Inputs of the registration calls *)

Patterns == { <<"/", "a">>, <<"/", "a", "/", "b">> }

HtmlHi == <<"<html>Hi</html>">>        \* content of the registered file
ErrHtml == <<"<h1>custom 404</h1>">>   \* content of the error page file
WwwFolder == <<"www">>                 \* the static folder F
ExternalUrl == <<"http", ":", "/", "/", "example.test", "/">>   \* the proxy base URL U
Handlers == {"h_ok", "h_close", "h_panic"}   \* closures given to add_custom_route

----------------------------------------------------------------------------
(* Registration: webserver/mod.rs *)

RECURSIVE SumLen(_, _)
SumLen(m, S) ==
    IF S = {} THEN 0
    ELSE LET d == CHOOSE x \in S : TRUE
         IN Len(m[d]) + SumLen(m, S \ {d})

TotalRoutes == SumLen(domains, DOMAIN domains)

\* domain.cloned().unwrap_or_else(|| self.default_domain.clone())
DomainOrDefault(domain) == IF domain = None THEN BaseDomain ELSE domain[1]

\* variant with one route list shared by all domains: the route is pushed to
\* the default domain's list as well
PushRoute_Shared(m, d, r) ==
    LET own == IF d \in DOMAIN m
               THEN [m EXCEPT ![d] = Append(@, r)]
               ELSE [x \in DOMAIN m \cup {d} |-> IF x = d THEN <<r>> ELSE m[x]]
    IN IF d = BaseDomain \/ BaseDomain \notin DOMAIN own THEN own
       ELSE [own EXCEPT ![BaseDomain] = Append(@, r)]

\* guard.entry(domain).or_insert_with(Vec::new) followed by routes.push(r)
PushRoute(m, d, r) ==
    IF d \in DOMAIN m
    THEN [m EXCEPT ![d] = Append(@, r)]
    ELSE [x \in DOMAIN m \cup {d} |-> IF x = d THEN <<r>> ELSE m[x]]

Registering ==
    /\ phase = "config"
    /\ TotalRoutes < MaxRoutes

add_subdomain_router(domain) ==
    /\ Registering
    /\ LET domain_str == to_lowercase(domain) \o <<".">> \o BaseDomain
       IN domains' = IF domain_str \in DOMAIN domains
                     THEN domains
                     ELSE [x \in DOMAIN domains \cup {domain_str} |->
                              IF x = domain_str THEN <<>> ELSE domains[x]]
    /\ UNCHANGED <<phase, pc, i, ret, request, dispatch, written, sent, poisoned, middleware,
                 ran, tls, builderVars, codecVars, readerVars, lockVars>>

add_route_file(route, method, content, response_codes, domain) ==
    /\ Registering
    /\ LET d == DomainOrDefault(domain)
       IN domains' = PushRoute(domains, d,
                        new_file(route, method, response_codes, d, content))
    /\ UNCHANGED <<phase, pc, i, ret, request, dispatch, written, sent, poisoned, middleware,
                 ran, tls, builderVars, codecVars, readerVars, lockVars>>

\* variant that removes an identical earlier registration instead of pushing
add_static_route_toggle(route, method, folder, response_codes, domain) ==
    /\ Registering
    /\ LET d == DomainOrDefault(domain)
           r == new_static(route, method, response_codes, d, folder)
           present == d \in DOMAIN domains /\ \E k \in 1..Len(domains[d]) : domains[d][k] = r
       IN domains' = IF present
                     THEN [domains EXCEPT ![d] = SelectSeq(@, LAMBDA x : x # r)]
                     ELSE PushRoute(domains, d, r)
    /\ UNCHANGED <<phase, pc, i, ret, request, dispatch, written, sent, poisoned, middleware,
                 ran, tls, builderVars, codecVars, readerVars, lockVars>>

add_static_route(route, method, folder, response_codes, domain) ==
    /\ Registering
    /\ LET d == DomainOrDefault(domain)
       IN domains' = PushRoute(domains, d,
                        new_static(route, method, response_codes, d, folder))
    /\ UNCHANGED <<phase, pc, i, ret, request, dispatch, written, sent, poisoned, middleware,
                 ran, tls, builderVars, codecVars, readerVars, lockVars>>

add_custom_route(route, method, f, response_codes, domain) ==
    /\ Registering
    /\ LET d == DomainOrDefault(domain)
       IN domains' = PushRoute(domains, d,
                        new_custom(route, method, response_codes, d, f))
    /\ UNCHANGED <<phase, pc, i, ret, request, dispatch, written, sent, poisoned, middleware,
                 ran, tls, builderVars, codecVars, readerVars, lockVars>>

\* the status_code argument is not used: the route reacts on response_codes
add_error_route(status_code, content, response_codes, domain) ==
    /\ Registering
    /\ LET d == DomainOrDefault(domain)
       IN domains' = PushRoute(domains, d,
                        new_error("GET", d, response_codes, content))
    /\ UNCHANGED <<phase, pc, i, ret, request, dispatch, written, sent, poisoned, middleware,
                 ran, tls, builderVars, codecVars, readerVars, lockVars>>

add_proxy_route(route, external, response_codes, domain) ==
    /\ Registering
    /\ LET d == DomainOrDefault(domain)
       IN domains' = PushRoute(domains, d,
                        new_proxy(route, "GET", d, response_codes, external))
    /\ UNCHANGED <<phase, pc, i, ret, request, dispatch, written, sent, poisoned, middleware,
                 ran, tls, builderVars, codecVars, readerVars, lockVars>>

----------------------------------------------------------------------------
(* DomainRoutes: the per-kind lookup tables Client::handle_routing reads.  *)
(* A table maps a pattern to the value of the last route of that kind      *)
(* registered with that pattern (HashMap insert).                          *)

KindKeys(routes, kind) ==
    { routes[k].route : k \in { j \in 1..Len(routes) : routes[j].route_type = kind } }

LastOf(routes, kind, key) ==
    LET ks == { j \in 1..Len(routes) :
                  routes[j].route_type = kind /\ routes[j].route = key }
    IN routes[CHOOSE j \in ks : \A l \in ks : l <= j]

custom_routes(routes) ==
    [key \in KindKeys(routes, "Custom") |-> LastOf(routes, "Custom", key).f[1]]

static_routes(routes) ==
    [key \in KindKeys(routes, "Static") |-> LastOf(routes, "Static", key).folder[1]]

proxy_route(routes) ==
    [key \in KindKeys(routes, "Proxy") |-> LastOf(routes, "Proxy", key).external[1]]

file_routes(routes) ==
    [key \in KindKeys(routes, "File") |-> LastOf(routes, "File", key).content[1]]

----------------------------------------------------------------------------
(* The file system seen by the static dispatcher, and files/mod.rs *)

\* path -> content of the files that exist; e.css exists and is empty
OutsideFiles == { <<"www", "/", "..", "/", "key.pem">>, <<"/", "etc", "/", "passwd">> }

Files ==
    [p \in { <<"www", "/", "f.css">>, <<"www", "/", "e.css">> } \cup OutsideFiles |->
        IF p = <<"www", "/", "f.css">> THEN <<"body{}">>
        ELSE IF p \in OutsideFiles THEN <<"secret">>
        ELSE <<>>]

\* fs::read_to_string: Some(content), or None for the Err case
read_to_string(path) ==
    IF path \in DOMAIN Files THEN Some(Files[path]) ELSE None

\* Path::join: an absolute argument replaces the base
path_join(base, rel) ==
    IF rel # <<>> /\ rel[1] = "/" THEN rel ELSE base \o <<"/">> \o rel

\* Path::extension of the last component, as Option
path_extension(path) ==
    IF path = <<>> THEN None
    ELSE CASE path[Len(path)] = "f.css" -> Some("css")
           [] path[Len(path)] = "e.css" -> Some("css")
           [] path[Len(path)] = "p.html" -> Some("html")
           [] OTHER -> None

\* the second part of str::splitn(2, c), "" when there is one part only
splitn2_second(s, c) ==
    LET k == Find(s, c)
    IN IF k = 0 THEN <<>> ELSE SubSeq(s, k + 1, Len(s))

mime_for_extension(ext) ==
    CASE ext = Some("css") -> "text/css"
      [] ext = Some("js") -> "application/javascript"
      [] ext = Some("html") -> "text/html"
      [] ext = Some("json") -> "application/json"
      [] ext = Some("png") -> "image/png"
      [] ext = Some("jpg") -> "image/jpeg"
      [] ext = Some("jpeg") -> "image/jpeg"
      [] ext = Some("svg") -> "image/svg+xml"
      [] OTHER -> "text/plain"

\* the path get_static_file_content reads for (route, folder)
static_file_path(route, folder) ==
    LET relative_path == splitn2_second(trim_start_matches(route, "/"), "/")
    IN path_join(folder, relative_path)

get_static_file_content(route, folder) ==
    LET file_path == static_file_path(route, folder)
        content_type == mime_for_extension(path_extension(file_path))
        read == read_to_string(file_path)
    IN IF read # None
       THEN [content |-> read[1], content_type |-> content_type, file_path |-> file_path]
       ELSE [content |-> <<>>, content_type |-> "text/plain", file_path |-> file_path]

----------------------------------------------------------------------------
(* Forward proxy client: webserver/proxy/mod.rs *)

CR == "CR"     \* the byte \r
LF == "LF"     \* the byte \n
SP == " "
CRLF == <<CR, LF>>

\* index of the first occurrence of the sequence pat in s, 0 when there is none
RECURSIVE FindSubFrom(_, _, _)
FindSubFrom(s, pat, k) ==
    IF k + Len(pat) - 1 > Len(s) THEN 0
    ELSE IF SubSeq(s, k, k + Len(pat) - 1) = pat THEN k
    ELSE FindSubFrom(s, pat, k + 1)

FindSub(s, pat) == FindSubFrom(s, pat, 1)

IsSpace(a) == a \in {SP, CR, LF, "\t"}

RECURSIVE trim_end(_)
trim_end(s) ==
    IF s # <<>> /\ IsSpace(s[Len(s)]) THEN trim_end(SubSeq(s, 1, Len(s) - 1)) ELSE s

RECURSIVE trim_start(_)
trim_start(s) ==
    IF s # <<>> /\ IsSpace(s[1]) THEN trim_start(Tail(s)) ELSE s

trim(s) == trim_end(trim_start(s))

\* the piece of str::split(c) with index n (from 0), as Option
RECURSIVE split_nth(_, _, _)
split_nth(s, c, n) ==
    LET k == Find(s, c)
    IN IF n = 0
       THEN Some(IF k = 0 THEN s ELSE SubSeq(s, 1, k - 1))
       ELSE IF k = 0 THEN None
       ELSE split_nth(SubSeq(s, k + 1, Len(s)), c, n - 1)

\* value of a decimal number word, -1 when the word is not a number
DecimalWord(a) ==
    CASE a = "0" -> 0 [] a = "1" -> 1 [] a = "2" -> 2 [] a = "3" -> 3
      [] a = "4" -> 4 [] a = "5" -> 5 [] a = "9" -> 9
      [] a = "80" -> 80 [] a = "443" -> 443 [] a = "8080" -> 8080
      [] a = "65535" -> 65535 [] a = "65536" -> 65536
      [] OTHER -> -1

U16Max == 65535

\* variant that wraps a port beyond 16 bits instead of failing
parse_u16_wrapping(p) ==
    IF Len(p) = 1 /\ DecimalWord(p[1]) >= 0
    THEN Some(DecimalWord(p[1]) % (U16Max + 1)) ELSE None

\* str::parse::<u16>().ok() of a sequence of atoms
parse_u16(p) ==
    IF Len(p) = 1 /\ DecimalWord(p[1]) >= 0 /\ DecimalWord(p[1]) <= U16Max
    THEN Some(DecimalWord(p[1])) ELSE None

\* str::parse::<usize>().ok()
parse_usize(p) ==
    IF Len(p) = 1 /\ DecimalWord(p[1]) >= 0 THEN Some(DecimalWord(p[1])) ELSE None

\* Proxy::new
Proxy_new(url) ==
    [url |-> url, host |-> <<>>, port |-> 0, path |-> <<>>, scheme |-> "HTTPS"]

DefaultPort(scheme) ==
    CASE scheme = <<"https">> -> Some(443)
      [] scheme = <<"http">> -> Some(80)
      [] OTHER -> None

SchemeOf(scheme) ==
    CASE scheme = <<"https">> -> Some("HTTPS")
      [] scheme = <<"http">> -> Some("HTTP")
      [] OTHER -> None

\* Proxy::parse_url: [ok, proxy] with proxy unchanged when ok is FALSE
parse_url(proxy) ==
    LET url == proxy.url
        sep == FindSub(url, <<":", "/", "/">>)
        scheme == to_lowercase(SubSeq(url, 1, sep - 1))
        rest == SubSeq(url, sep + 3, Len(url))
        slash == Find(rest, "/")
        host_port == IF slash = 0 THEN rest ELSE SubSeq(rest, 1, slash - 1)
        path == IF slash = 0 THEN <<"/">> ELSE SubSeq(rest, slash, Len(rest))
        colon == Find(host_port, ":")
        host == IF colon = 0 THEN host_port ELSE SubSeq(host_port, 1, colon - 1)
        port == IF colon = 0 THEN DefaultPort(scheme)
                ELSE parse_u16(SubSeq(host_port, colon + 1, Len(host_port)))
        failed == [ok |-> FALSE, proxy |-> proxy]
    IN IF sep = 0 THEN failed
       ELSE IF port = None THEN failed
       ELSE IF SchemeOf(scheme) = None THEN failed
       ELSE [ok |-> TRUE,
             proxy |-> [proxy EXCEPT !.scheme = SchemeOf(scheme)[1], !.host = host,
                                     !.port = port[1], !.path = path]]

\* find_header_end: 0-based index of the first CRLFCRLF, as Option
find_header_end(buffer) ==
    LET k == FindSub(buffer, <<CR, LF, CR, LF>>)
    IN IF k = 0 THEN None ELSE Some(k - 1)

\* str::lines
RECURSIVE lines(_)
lines(s) ==
    IF s = <<>> THEN <<>>
    ELSE LET k == Find(s, LF)
             strip(l) == IF l # <<>> /\ l[Len(l)] = CR THEN SubSeq(l, 1, Len(l) - 1) ELSE l
         IN IF k = 0 THEN <<s>>
            ELSE <<strip(SubSeq(s, 1, k - 1))>> \o lines(SubSeq(s, k + 1, Len(s)))

\* value of a hexadecimal digit, -1 for any other atom
HexDigit(a) ==
    CASE a = "0" -> 0 [] a = "1" -> 1 [] a = "2" -> 2 [] a = "3" -> 3
      [] a = "4" -> 4 [] a = "5" -> 5 [] a = "6" -> 6 [] a = "7" -> 7
      [] a = "8" -> 8 [] a = "9" -> 9 [] a = "a" -> 10 [] a = "b" -> 11
      [] a = "c" -> 12 [] a = "d" -> 13 [] a = "e" -> 14 [] a = "f" -> 15
      [] a = "A" -> 10 [] a = "B" -> 11 [] a = "C" -> 12 [] a = "D" -> 13
      [] a = "E" -> 14 [] a = "F" -> 15
      [] OTHER -> -1

RECURSIVE HexValue(_, _)
HexValue(s, acc) ==
    IF s = <<>> THEN acc ELSE HexValue(Tail(s), acc * 16 + HexDigit(s[1]))

UsizeHexDigits == 16    \* hexadecimal digits of usize::MAX on a 64-bit target

\* stands for every size of 16^7 or more: larger than any input of the model
HugeSize == HexValue(<<"1", "0", "0", "0", "0", "0", "0", "0">>, 0)

\* usize::from_str_radix(s, 16).ok(); a value of more than seven digits is
\* given as HugeSize
from_str_radix16(s) ==
    IF s = <<>> \/ \E k \in 1..Len(s) : HexDigit(s[k]) < 0 THEN None
    ELSE IF Len(s) > UsizeHexDigits THEN None
    ELSE IF Len(s) > 7 THEN Some(HugeSize)
    ELSE Some(HexValue(s, 0))

\* the value of the digit-wise complement of a hexadecimal number
RECURSIVE HexComplement(_, _)
HexComplement(s, acc) ==
    IF s = <<>> THEN acc ELSE HexComplement(Tail(s), acc * 16 + (15 - HexDigit(s[1])))

\* variant of the addition in a word with room for every sum
add_overflows_never(pos, size_line) == FALSE

\* whether `pos + size` exceeds usize::MAX for the size written as size_line:
\* usize::MAX - size, the digit-wise complement of a 16-digit size, is below pos
add_overflows(pos, size_line) ==
    /\ Len(size_line) = UsizeHexDigits
    /\ \A k \in 1..9 : HexDigit(size_line[k]) = 15
    /\ HexComplement(SubSeq(size_line, 10, UsizeHexDigits), 0) < pos

\* variant that leaves the CRLF after the chunk data unread
skip_crlf_never(data, pos) == pos

\* `if pos + 2 <= data.len() && &data[pos..pos + 2] == b"\r\n" { pos += 2 }`
skip_crlf(data, pos) ==
    IF pos + 2 <= Len(data) /\ SubSeq(data, pos + 1, pos + 2) = CRLF
    THEN pos + 2 ELSE pos

\* decode_chunked_body, the loop from position pos (0-based) with result so far
RECURSIVE decode_chunked_loop(_, _, _)
decode_chunked_loop(data, pos, result) ==
    IF ~(pos < Len(data)) THEN result
    ELSE
      LET nl == Find(SubSeq(data, pos + 1, Len(data)), LF)
          line_end == pos + nl
          line_text == SubSeq(data, pos + 1, line_end)
          size_line == split_nth(trim(line_text), ";", 0)[1]
          size == from_str_radix16(size_line)
          pos3 == skip_crlf(data, line_end + size[1])
      IN IF nl = 0 THEN result
         ELSE IF size = None THEN result
         ELSE IF size[1] = 0 THEN result
         ELSE IF line_end + size[1] > Len(data) THEN result
         ELSE decode_chunked_loop(data, pos3,
                  result \o SubSeq(data, line_end + 1, line_end + size[1]))

decode_chunked_body(data) == decode_chunked_loop(data, 0, <<>>)

\* whether decode_chunked_body panics: `pos + size` overflows (a panic in a
\* build with overflow checks; without them the sum wraps below pos, the
\* test `pos + size > data.len()` is false and the slice data[pos..pos + size]
\* panics with its end before its start)
RECURSIVE decode_chunked_panics(_, _)
decode_chunked_panics(data, pos) ==
    IF ~(pos < Len(data)) THEN FALSE
    ELSE
      LET nl == Find(SubSeq(data, pos + 1, Len(data)), LF)
          line_end == pos + nl
          line_text == SubSeq(data, pos + 1, line_end)
          size_line == split_nth(trim(line_text), ";", 0)[1]
          size == from_str_radix16(size_line)
          pos3 == skip_crlf(data, line_end + size[1])
      IN IF nl = 0 THEN FALSE
         ELSE IF size = None THEN FALSE
         ELSE IF size[1] = 0 THEN FALSE
         ELSE IF add_overflows(line_end, size_line) THEN TRUE
         ELSE IF line_end + size[1] > Len(data) THEN FALSE
         ELSE decode_chunked_panics(data, pos3)

\* str::to_lowercase of a header name word
lower_header_name(a) ==
    CASE a \in {"Content-Type", "content-type", "CONTENT-TYPE"} -> "content-type"
      [] a \in {"Transfer-Encoding", "transfer-encoding"} -> "transfer-encoding"
      [] a \in {"Content-Length", "content-length"} -> "content-length"
      [] a \in {"Host", "host", "HOST"} -> "host"
      [] OTHER -> a

\* lower.starts_with("<name>:") for a header line
line_starts_with(line, name) ==
    /\ Len(line) >= 2
    /\ lower_header_name(line[1]) = name
    /\ line[2] = ":"

\* lower.contains("chunked")
line_contains_chunked(line) ==
    \E k \in 1..Len(line) : line[k] \in {"chunked", "Chunked", "gzip, chunked"}

\* the fold over headers_str.lines() in parse_http_response_bytes
RECURSIVE scan_headers(_, _)
scan_headers(ls, acc) ==
    IF ls = <<>> THEN acc
    ELSE
      LET line == ls[1]
          value == trim(split_nth(line, ":", 1)[1])
          a1 == IF line_starts_with(line, "content-type")
                THEN [acc EXCEPT !.content_type = value] ELSE acc
          a2 == IF line_starts_with(line, "transfer-encoding") /\ line_contains_chunked(line)
                THEN [a1 EXCEPT !.is_chunked = TRUE] ELSE a1
          a3 == IF line_starts_with(line, "content-length")
                THEN [a2 EXCEPT !.content_length = parse_usize(value)] ELSE a2
      IN scan_headers(Tail(ls), a3)

Min(a, b) == IF a <= b THEN a ELSE b

\* variant that lets a declared Content-Length win over the chunked coding
parse_http_response_bytes_length_first(response) ==
    LET he == find_header_end(response)
        header_end == he[1]
        h == scan_headers(lines(SubSeq(response, 1, header_end)),
                 [content_type |-> <<"text/html">>, is_chunked |-> FALSE,
                  content_length |-> None])
        raw_body == SubSeq(response, header_end + 5, Len(response))
        body == IF h.content_length # None
                THEN SubSeq(raw_body, 1, Min(h.content_length[1], Len(raw_body)))
                ELSE IF h.is_chunked THEN decode_chunked_body(raw_body)
                ELSE raw_body
    IN IF he # None
       THEN [body |-> body, content_type |-> h.content_type]
       ELSE [body |-> response, content_type |-> <<"text/html">>]

\* Proxy::parse_http_response_bytes: (body, content_type)
parse_http_response_bytes(response) ==
    LET he == find_header_end(response)
        header_end == he[1]
        h == scan_headers(lines(SubSeq(response, 1, header_end)),
                 [content_type |-> <<"text/html">>, is_chunked |-> FALSE,
                  content_length |-> None])
        raw_body == SubSeq(response, header_end + 5, Len(response))
        body == IF h.is_chunked THEN decode_chunked_body(raw_body)
                ELSE IF h.content_length # None
                THEN SubSeq(raw_body, 1, Min(h.content_length[1], Len(raw_body)))
                ELSE raw_body
    IN IF he # None
       THEN [body |-> body, content_type |-> h.content_type]
       ELSE [body |-> response, content_type |-> <<"text/html">>]

----------------------------------------------------------------------------
(* Requests, responses and the environment of one Client::handle call *)

ReqPaths ==
    { <<"/", "a">>, <<"/", "a", "/", "b">>, <<"/", "a", "/", "f.css">>,
      <<"/", "a", "/", "b", "/", "f.css">>, <<"/", "x">> }

Wildcard == <<"*">>

\* host is the Host header of a request, None when the request has none;
\* SubDomain has no entry in the domain map until add_subdomain_router runs
Requests ==
    [method : {"GET"}, route : ReqPaths, host : {Some(BaseDomain)}]
      \cup [method : {"GET"}, route : { <<"/", "a">>, <<"/", "x">> },
            host : {Some(SubDomain), Some(SubName)}]
      \cup { [method |-> "GET", route |-> <<"/", "a">>, host |-> None] }
      \cup [method : {"POST"}, route : { <<"/", "a">>, <<"/", "x">> }, host : {Some(BaseDomain)}]
      \cup { [method |-> "GET", route |-> <<"/", "a">>, host |-> Some(Wildcard)] }

\* Response::new(content, code, None)
Response_new(content, code) ==
    [status |-> IF code = None THEN Ok ELSE code[1],
     body |-> content,
     content_type |-> <<"text/html">>,
     connection |-> "keep-alive",
     headers |-> {}]

\* what the registered closures do when called
RunHandler(f, req, domain) ==
    CASE f = "h_ok" -> [panics |-> FALSE, response |-> Response_new(<<"custom">>, None)]
      [] f = "h_close" ->
            [panics |-> FALSE,
             response |-> [Response_new(<<"custom">>, None) EXCEPT !.connection = "close"]]
      [] OTHER -> [panics |-> TRUE, response |-> Response_new(<<>>, None)]

\* bytes an upstream server may answer with
StatusLine(code) == <<"HTTP/1.1", SP, code>> \o CRLF

UpstreamOkCss ==
    StatusLine("200") \o <<"Content-Type", ":", SP, "text/css">> \o CRLF
      \o <<"Content-Length", ":", SP, "2">> \o CRLF \o CRLF \o <<"W", "i", "k">>

UpstreamNotFound ==
    StatusLine("404") \o <<"Content-Type", ":", SP, "text/plain">> \o CRLF
      \o CRLF \o <<"n", "o">>

UpstreamChunked ==
    StatusLine("200") \o <<"Transfer-Encoding", ":", SP, "chunked">> \o CRLF
      \o CRLF \o <<"2">> \o CRLF \o <<"W", "i">> \o CRLF \o <<"0">> \o CRLF \o CRLF

\* an answer that is no HTTP response: no blank line ends the header block
UpstreamNoTerminator == StatusLine("200") \o <<"x">>

MalformedAnswers == { UpstreamNoTerminator }

UpstreamAnswers == { UpstreamOkCss, UpstreamNotFound, UpstreamChunked } \cup MalformedAnswers

\* the status code on the status line of an upstream answer
UpstreamStatus(raw) ==
    CASE Len(raw) >= 3 /\ raw[1] = "HTTP/1.1" /\ raw[3] = "200" -> 200
      [] Len(raw) >= 3 /\ raw[1] = "HTTP/1.1" /\ raw[3] = "404" -> 404
      [] OTHER -> 0

\* outcome of Proxy::connect_to_server and of send_http(s)_request
NoUpstream == [connect_ok |-> FALSE, response_data |-> None]

Envs ==
    {NoUpstream}
      \cup [connect_ok : {TRUE}, response_data : {None} \cup { Some(u) : u \in UpstreamAnswers }]

\* String::from_utf8_lossy: an invalid byte becomes U+FFFD
from_utf8_lossy(bytes) ==
    [k \in 1..Len(bytes) |-> IF bytes[k] = "0xFF" THEN "U+FFFD" ELSE bytes[k]]

NoDispatch ==
    [table |-> None, via |-> "none", pattern |-> None, file |-> None,
     upstream |-> None, upstream_answer |-> None, panicked |-> FALSE, escaped |-> FALSE,
     response |-> Response_new(<<>>, None)]

----------------------------------------------------------------------------
(* Routing and dispatch: Client::handle_routing, client_handling/mod.rs *)

\* the longest key of the table that is a prefix of route, as Option
LongestPrefixKey(table, route) ==
    LET cands == { k \in DOMAIN table : starts_with(route, k) }
    IN IF cands = {} THEN None
       ELSE Some(CHOOSE k \in cands : \A l \in cands : Len(l) <= Len(k))

find_static_folder(table, route) == LongestPrefixKey(table, route)

find_proxy_route(table, route) == LongestPrefixKey(table, route)

\* variant without `.or_else(|| guard.get(&self.default_domain))`
ResolveDomain_NoFallback(guard, host) ==
    IF host \in DOMAIN guard THEN Some(host) ELSE None

\* the table handle_routing uses: the Host's, else the default domain's
ResolveDomain(guard, host) ==
    IF host \in DOMAIN guard THEN Some(host)
    ELSE IF BaseDomain \in DOMAIN guard THEN Some(BaseDomain)
    ELSE None

\* variant without the fault boundary: the panic unwinds out of handle_routing
catch_unwind_absent(run) == [is_err |-> FALSE, escaped |-> run.panics]

\* catch_unwind(AssertUnwindSafe(|| handler(..))): Err(_) for a panic
catch_unwind(run) == [is_err |-> run.panics, escaped |-> FALSE]

DispatchCustom(guard, d, req, current_domain, pattern) ==
    LET run == RunHandler(custom_routes(guard[d])[pattern], req, current_domain)
        caught == catch_unwind(run)
    IN [NoDispatch EXCEPT
          !.table = Some(d), !.via = "Custom", !.pattern = Some(pattern),
          !.panicked = run.panics,
          !.escaped = caught.escaped,
          !.response = IF caught.is_err
                       THEN Response_new(<<"<h1>500 Internal Server Error</h1>">>,
                                         Some(InternalServerError))
                       ELSE run.response]

DispatchStatic(guard, d, req, prefix) ==
    LET folder == static_routes(guard[d])[prefix]
        got == get_static_file_content(req.route, folder)
    IN [NoDispatch EXCEPT
          !.table = Some(d), !.via = "Static", !.pattern = Some(prefix),
          !.file = Some(got.file_path),
          !.response = IF got.content = <<>>
                       THEN Response_new(<<"<h1>404 Not found</h1>">>, Some(NotFound))
                       ELSE [Response_new(got.content, None) EXCEPT
                                !.content_type = <<got.content_type>>]]

DispatchProxy(guard, d, req, prefix, env) ==
    LET external == proxy_route(guard[d])[prefix]
        path == strip_prefix_or(req.route, prefix)
        parsed == parse_url(Proxy_new(external \o path))
        proxy == parsed.proxy
        base == [NoDispatch EXCEPT
                    !.table = Some(d), !.via = "Proxy", !.pattern = Some(prefix)]
        forwarded == [scheme |-> proxy.scheme, host |-> proxy.host,
                      port |-> proxy.port, path |-> proxy.path]
        relayed == parse_http_response_bytes(env.response_data[1])
    IN IF ~parsed.ok
       THEN [base EXCEPT !.response =
                Response_new(<<"<h1>502 Bad Gateway - Invalid URL</h1>">>, Some(BadGateway))]
       ELSE IF ~env.connect_ok
       THEN [base EXCEPT !.response =
                Response_new(<<"<h1>502 Bad Gateway - Connection Failed</h1>">>,
                             Some(BadGateway))]
       ELSE IF env.response_data # None
       THEN [base EXCEPT
                !.upstream = Some(forwarded),
                !.upstream_answer = env.response_data,
                !.response = [Response_new(from_utf8_lossy(relayed.body), Some(Ok)) EXCEPT
                                 !.content_type = relayed.content_type]]
       ELSE [base EXCEPT
                !.upstream = Some(forwarded),
                !.response = Response_new(<<"<h1>502 Bad Gateway</h1>">>, Some(BadGateway))]

\* the dispatch of handle_routing under the lock guard on the domain map
route_under(guard, req, env) ==
    LET host == IF req.host = None THEN <<>> ELSE req.host[1]
        current_domain == host
        table == ResolveDomain(guard, current_domain)
        d == table[1]
        not_found == Response_new(<<"<h1>404 Not Found</h1>">>, Some(NotFound))
        static == find_static_folder(static_routes(guard[d]), req.route)
        proxy == find_proxy_route(proxy_route(guard[d]), req.route)
    IN IF table = None
       THEN [NoDispatch EXCEPT !.via = "NoDomain", !.response = not_found]
       ELSE IF req.route \in DOMAIN custom_routes(guard[d])
       THEN DispatchCustom(guard, d, req, current_domain, req.route)
       ELSE IF static # None
       THEN DispatchStatic(guard, d, req, static[1])
       ELSE IF proxy # None
       THEN DispatchProxy(guard, d, req, proxy[1], env)
       ELSE IF req.route \in DOMAIN file_routes(guard[d])
       THEN [NoDispatch EXCEPT
                !.table = Some(d), !.via = "File", !.pattern = Some(req.route),
                !.response = Response_new(file_routes(guard[d])[req.route], Some(Ok))]
       ELSE [NoDispatch EXCEPT !.table = Some(d), !.via = "NoRoute", !.response = not_found]

------------------------------------------------------------

\* `let guard = self.domains.lock().unwrap();` and the dispatch under it
handle_routing(req, env) == route_under(domains, req, env)

----------------
(* Middleware: WebServer::new, apply_request_middleware,                   *)
(* apply_response_middleware, WebServer::errorpage                         *)

\* the built-in entries WebServer::new pushes, in this order
Middlewares ==
    << [domain |-> Wildcard, route |-> Wildcard, f |-> "Request", name |-> "log_request_start"],
       [domain |-> Wildcard, route |-> Wildcard, f |-> "Response", name |-> "log_request_end"],
       [domain |-> Wildcard, route |-> Wildcard, f |-> "ResponseBothWithRoutes",
        name |-> "errorpage"] >>

MaxMiddleware == 1  \* user-supplied middleware entries

\* Middleware::new_request, new_response, new_both with a user function
Middleware_new(domain, route, f) ==
    [domain |-> IF domain = None THEN Wildcard ELSE domain[1],
     route |-> IF route = None THEN Wildcard ELSE route[1],
     f |-> f, name |-> "user"]

\* registration of a user-supplied entry behind the entries already there
add_middleware(domain, route, f) ==
    /\ Registering
    /\ Len(middleware) < Len(Middlewares) + MaxMiddleware
    /\ middleware' = Append(middleware, Middleware_new(domain, route, f))
    /\ UNCHANGED <<phase, domains, pc, i, ret, request, dispatch, written, sent, poisoned,
                   ran, tls, builderVars, codecVars, readerVars, lockVars>>

\* WebServer::errorpage: the response built from the Error route is dropped
errorpage(req, response, routes) ==
    LET found == { k \in 1..Len(routes) :
                     routes[k].route_type = "Error"
                     /\ routes[k].status_code = response.status }
    IN response

\* variant that visits the entries last to first
middleware_iter_rev(mws) == [k \in 1..Len(mws) |-> Len(mws) + 1 - k]

\* self.middleware.iter(): the indices of the entries in the order visited
middleware_iter(mws) == [k \in 1..Len(mws) |-> k]

NoRan == [request |-> <<>>, response |-> <<>>]

\* the loop of apply_request_middleware over the entries `it` still to visit:
\* the indices of the entries run, and whether
\* request.values.get("host").unwrap() panicked
RECURSIVE apply_request_middleware_from(_, _, _)
apply_request_middleware_from(it, req, done) ==
    IF it = <<>> THEN [panics |-> FALSE, request |-> req, ran |-> done]
    ELSE
      LET mw == middleware[it[1]]
      IN IF mw.route # req.route /\ mw.route # Wildcard
         THEN apply_request_middleware_from(Tail(it), req, done)
         ELSE IF req.host = None
         THEN [panics |-> TRUE, request |-> req, ran |-> done]
         ELSE IF mw.domain = req.host[1]
         THEN apply_request_middleware_from(Tail(it), req, done)
         ELSE IF mw.f \in {"Request", "Both"}
         THEN apply_request_middleware_from(Tail(it), req, Append(done, it[1]))
         ELSE apply_request_middleware_from(Tail(it), req, done)

apply_request_middleware(req) ==
    apply_request_middleware_from(middleware_iter(middleware), req, <<>>)

\* the loop of apply_response_middleware: every entry with a response
\* function is run; the with-routes variant gets the default domain's routes
RECURSIVE apply_response_middleware_from(_, _, _, _)
apply_response_middleware_from(it, req, response, done) ==
    IF it = <<>> THEN [response |-> response, ran |-> done]
    ELSE
      LET mw == middleware[it[1]]
      IN IF mw.f = "ResponseBothWithRoutes"
         THEN apply_response_middleware_from(Tail(it), req,
                  errorpage(req, response, domains[BaseDomain]), Append(done, it[1]))
         ELSE IF mw.f \in {"Response", "BothResponse", "Both"}
         THEN apply_response_middleware_from(Tail(it), req, response, Append(done, it[1]))
         ELSE apply_response_middleware_from(Tail(it), req, response, done)

apply_response_middleware(req, response) ==
    apply_response_middleware_from(middleware_iter(middleware), req, response, <<>>)

----------------------------------------------------------------------------
(* Parsing of the bytes read: HTTPRequest::parse, requests/mod.rs *)

RECURSIVE split_whitespace(_)
split_whitespace(s) ==
    LET t == trim_start(s)
        sp == { k \in 1..Len(t) : IsSpace(t[k]) }
        k == CHOOSE x \in sp : \A y \in sp : x <= y
    IN IF t = <<>> THEN <<>>
       ELSE IF sp = {} THEN <<t>>
       ELSE <<SubSeq(t, 1, k - 1)>> \o split_whitespace(SubSeq(t, k + 1, Len(t)))

to_uppercase_atom(a) ==
    CASE a = "get" -> "GET" [] a = "post" -> "POST" [] OTHER -> a

\* HTTPMethod::from_str
HTTPMethod_from_str(method) ==
    IF Len(method) = 1 /\ to_uppercase_atom(method[1]) \in Methods
    THEN Some(to_uppercase_atom(method[1])) ELSE None

\* the header loop of parse: name and value around the first colon, trimmed,
\* inserted into the map; the loop ends at the first empty line
RECURSIVE parse_headers(_, _)
parse_headers(ls, header_map) ==
    IF ls = <<>> \/ ls[1] = <<>> THEN header_map
    ELSE
      LET line == ls[1]
          colon_pos == Find(line, ":")
          name == trim(SubSeq(line, 1, colon_pos - 1))
          value == trim(SubSeq(line, colon_pos + 1, Len(line)))
      IN IF colon_pos = 0 THEN parse_headers(Tail(ls), header_map)
         ELSE parse_headers(Tail(ls),
                  [x \in DOMAIN header_map \cup {name} |->
                      IF x = name THEN value ELSE header_map[x]])

\* HTTPHeader::get_header: exact match first, then case-insensitive
get_header(values, header) ==
    LET lower(n) == [k \in 1..Len(n) |-> lower_header_name(n[k])]
        ci == { k \in DOMAIN values : lower(k) = lower(header) }
    IN IF header \in DOMAIN values THEN Some(values[header])
       ELSE IF ci # {} THEN Some(values[CHOOSE k \in ci : TRUE])
       ELSE None

\* HTTPRequest::parse: None for the Err results
parse(raw_request) ==
    LET ls == lines(raw_request)
        parts == split_whitespace(ls[1])
        method == HTTPMethod_from_str(parts[1])
        headers == parse_headers(Tail(ls), <<>>)
    IN IF \E k \in 1..Len(raw_request) : raw_request[k] = "0xFF" THEN None
       ELSE IF ls = <<>> THEN None
       ELSE IF Len(parts) # 3 THEN None
       ELSE IF method = None THEN None
       ELSE Some([method |-> method[1], route |-> parts[2],
                  host |-> get_header(headers, <<"Host">>)])

\* the body HTTPRequest::parse stores: with a Content-Length that parses as
\* usize, the first content_length bytes of the last line of the request
\* text, when that line has as many
parse_body(raw_request) ==
    LET ls == lines(raw_request)
        headers == parse_headers(Tail(ls), <<>>)
        content_length_str == get_header(headers, <<"Content-Length">>)
        content_length == parse_usize(content_length_str[1])
        remaining == IF ls = <<>> THEN <<>> ELSE ls[Len(ls)]
    IN IF content_length_str = None THEN None
       ELSE IF content_length = None THEN None
       ELSE IF Len(remaining) >= content_length[1]
       THEN Some(SubSeq(remaining, 1, content_length[1]))
       ELSE None

\* the bytes a client sends for a request
RawRequest(req) ==
    <<req.method, SP>> \o req.route \o <<SP, "HTTP/1.1">> \o CRLF
      \o (IF req.host = None THEN <<>> ELSE <<"Host", ":", SP>> \o req.host[1] \o CRLF)
      \o CRLF

\* bytes that are no request: a request line of two and of four parts, an
\* unknown method, a byte that is not UTF-8
BadRequests ==
    { <<"GET", SP, "/", "a">> \o CRLF \o CRLF,
      <<"GET", SP, "/", "a", SP, "HTTP/1.1", SP, "x">> \o CRLF \o CRLF,
      <<"BREW", SP, "/", "a", SP, "HTTP/1.1">> \o CRLF \o CRLF,
      <<"GET", SP, "/", "0xFF", SP, "HTTP/1.1">> \o CRLF \o CRLF }

RawRequests == { RawRequest(req) : req \in Requests } \cup BadRequests

\* HTTPRequest::parse applied to each of the byte sequences a client sends
Parsed == [raw \in RawRequests |-> parse(raw)]

----------------------------------------------------------------------------
(* Reading a request from a plain connection: Client::read_http_request *)

BufferSize == 1024  \* `let mut buffer = [0u8; 1024]`

\* Client::read_http_request: one read into the buffer. `arrived` are the
\* batches of bytes in the order the socket delivers them; an empty list is
\* a peer that has closed (Ok(0)). Returns the bytes handed on and what the
\* socket still holds.
read_http_request(arrived, err) ==
    IF err \/ arrived = <<>> THEN [raw_request |-> None, rest |-> arrived]
    ELSE LET bytes_read == Min(Len(arrived[1]), BufferSize)
         IN [raw_request |-> Some(SubSeq(arrived[1], 1, bytes_read)),
             rest |-> IF bytes_read < Len(arrived[1])
                      THEN <<SubSeq(arrived[1], bytes_read + 1, Len(arrived[1]))>>
                             \o Tail(arrived)
                      ELSE Tail(arrived)]

\* requests with a body: method, Content-Length value (None: no such header)
\* and the bytes after the header block
BodyRequest(content_length, body) ==
    <<"POST", SP, "/", "a", SP, "HTTP/1.1">> \o CRLF
      \o <<"Host", ":", SP>> \o BaseDomain \o CRLF
      \o (IF content_length = None THEN <<>>
          ELSE <<"Content-Length", ":", SP, content_length[1]>> \o CRLF)
      \o CRLF \o body

\* what clients send on a connection
ClientMessages ==
    { RawRequest([method |-> "GET", route |-> <<"/", "a">>, host |-> Some(BaseDomain)]),
      BodyRequest(Some("2"), <<"h", "i">>),
      BodyRequest(Some("0"), <<>>),
      BodyRequest(Some("3"), <<"x", LF, "y">>),
      BodyRequest(Some("4"), <<"x", CR, LF, "y">>),
      BodyRequest(Some("1"), <<"x", LF, "y">>),
      BodyRequest(Some("2"), <<"h", LF>>),
      BodyRequest(Some("abc"), <<"h", "i">>),
      BodyRequest(Some("-1"), <<"h", "i">>),
      BodyRequest(None, <<"h", "i">>) }

\* a message as the network delivers it: whole, or cut into two segments
Streams ==
    { <<m>> : m \in ClientMessages }
      \cup UNION { { <<SubSeq(m, 1, k), SubSeq(m, k + 1, Len(m))>> : k \in 1..(Len(m) - 1) } :
                     m \in ClientMessages }

\* the first statement of Client::handle on a plain connection
ReadHttpRequest(err) ==
    /\ stream # <<>> \/ handed # None
    /\ LET r == read_http_request(stream, err)
       IN /\ handed' = r.raw_request
          /\ stream' = r.rest
    /\ UNCHANGED <<serverVars, builderVars, codecVars, lockVars>>

----------------------------------------------------------------------------
(* The connection worker: WebServer::start and Client::handle *)

\* the transport of the connection: tls_config and tls_connection of
\* Client::new, the handshakes made, whether one failed, and whether a write of
\* send_response failed (broken)
NoTls ==
    [tls_config |-> FALSE, tls_connection |-> None, handshakes |-> 0, failed |-> FALSE,
     broken |-> FALSE]

\* Client::handle_tls_connection: the handshake makes a new ServerConnection
\* on every call; it is stored in self.tls_connection once data was read
handle_tls_connection(t, outcome) ==
    CASE outcome = "handshake_failed" -> [t EXCEPT !.failed = TRUE]
      [] outcome = "read_failed" -> [t EXCEPT !.handshakes = @ + 1]
      [] OTHER -> [t EXCEPT !.handshakes = @ + 1,
                            !.tls_connection = Some(t.handshakes + 1)]

\* the first statement of Client::handle
read_raw_request(t, outcome) ==
    IF t.tls_config THEN handle_tls_connection(t, outcome) ELSE t

\* what Client::handle reports to the worker loop after a served exchange:
\* the connection directive of the response it wrote
HandleReturn(response) == Some(response.connection)

Start ==
    /\ phase = "config"
    /\ phase' = "serving"
    /\ pc' = "listening"
    /\ UNCHANGED <<domains, i, ret, request, dispatch, written, sent, poisoned, middleware,
                   ran, tls, builderVars, codecVars, readerVars, lockVars>>

\* listener.incoming() yields the connection and its worker thread starts
Accept ==
    /\ pc = "listening"
    /\ pc' = "handle"
    /\ i' = 0
    /\ UNCHANGED <<phase, domains, ret, request, dispatch, written, sent, poisoned, middleware,
                   ran, tls, builderVars, codecVars, readerVars, lockVars>>

\* variant that answers a failed handshake with an error response
HandleTlsHandshakeFails_Answers ==
    /\ pc = "handle"
    /\ i < MaxExchanges
    /\ tls.tls_config
    /\ tls' = handle_tls_connection(tls, "handshake_failed")
    /\ pc' = "returned"
    /\ ret' = None
    /\ request' = None
    /\ dispatch' = NoDispatch
    /\ written' = Some(Response_new(<<"<h1>500 Internal Server Error</h1>">>,
                                    Some(InternalServerError)))
    /\ sent' = sent + 1
    /\ ran' = NoRan
    /\ UNCHANGED <<phase, domains, i, poisoned, middleware, builderVars, codecVars, readerVars, lockVars>>

\* Client::handle when perform_tls_handshake returns None
HandleTlsHandshakeFails ==
    /\ pc = "handle"
    /\ i < MaxExchanges
    /\ tls.tls_config
    /\ tls' = handle_tls_connection(tls, "handshake_failed")
    /\ pc' = "returned"
    /\ ret' = None
    /\ request' = None
    /\ dispatch' = NoDispatch
    /\ written' = None
    /\ ran' = NoRan
    /\ UNCHANGED <<phase, domains, i, sent, poisoned, middleware, builderVars, codecVars, readerVars, lockVars>>

\* Client::handle when read_http_request or read_tls_data returns None
\* (read of 0 bytes or error)
HandleReadFails ==
    /\ pc = "handle"
    /\ i < MaxExchanges
    /\ tls' = read_raw_request(tls, "read_failed")
    /\ pc' = "returned"
    /\ ret' = None
    /\ request' = None
    /\ dispatch' = NoDispatch
    /\ written' = None
    /\ ran' = NoRan
    /\ UNCHANGED <<phase, domains, i, sent, poisoned, middleware, builderVars, codecVars, readerVars, lockVars>>

\* variant that answers bytes it cannot parse with 400
HandleParseFails_Answers(raw) ==
    /\ pc = "handle"
    /\ i < MaxExchanges
    /\ Parsed[raw] = None
    /\ tls' = read_raw_request(tls, "ok")
    /\ pc' = "returned"
    /\ ret' = Some("close")
    /\ request' = None
    /\ dispatch' = [NoDispatch EXCEPT !.via = "unparsed"]
    /\ written' = Some(Response_new(<<"<h1>400 Bad Request</h1>">>, Some(BadRequest)))
    /\ sent' = sent + 1
    /\ ran' = NoRan
    /\ UNCHANGED <<phase, domains, i, poisoned, middleware, builderVars, codecVars, readerVars, lockVars>>

\* Client::handle when the bytes read are no request
HandleParseFails(raw) ==
    /\ pc = "handle"
    /\ i < MaxExchanges
    /\ Parsed[raw] = None
    /\ tls' = read_raw_request(tls, "ok")
    /\ pc' = "returned"
    /\ ret' = None
    /\ request' = None
    /\ dispatch' = [NoDispatch EXCEPT !.via = "unparsed"]
    /\ written' = None
    /\ ran' = NoRan
    /\ UNCHANGED <<phase, domains, i, sent, poisoned, middleware, builderVars, codecVars, readerVars, lockVars>>

\* no upstream connection is attempted unless the proxy branch is taken
EnvChoices(req) ==
    IF handle_routing(req, NoUpstream).via = "Proxy" THEN Envs ELSE {NoUpstream}

\* Client::handle for bytes that parse as a request
HandleRequest(raw, env) ==
    /\ pc = "handle"
    /\ i < MaxExchanges
    /\ Parsed[raw] # None
    /\ IF env = NoUpstream THEN TRUE ELSE env \in EnvChoices(Parsed[raw][1])
    /\ LET req == Parsed[raw][1]
           mw == apply_request_middleware(req)
           routed == handle_routing(mw.request, env)
           after == apply_response_middleware(req, routed.response)
       IN /\ request' = Some(req)
          /\ IF mw.panics
             THEN /\ pc' = "panicked"
                  /\ dispatch' = NoDispatch
                  /\ written' = None
                  /\ ran' = [request |-> mw.ran, response |-> <<>>]
                  /\ UNCHANGED <<ret, sent, poisoned>>
             ELSE IF routed.escaped
             THEN /\ pc' = "panicked"
                  /\ dispatch' = routed
                  /\ written' = None
                  /\ ran' = [request |-> mw.ran, response |-> <<>>]
                  /\ poisoned' = TRUE
                  /\ UNCHANGED <<ret, sent>>
             ELSE /\ pc' = "returned"
                  /\ dispatch' = routed
                  /\ written' = Some(after.response)
                  /\ sent' = sent + 1
                  /\ ret' = HandleReturn(after.response)
                  /\ ran' = [request |-> mw.ran, response |-> after.ran]
                  /\ UNCHANGED poisoned
    /\ tls' = read_raw_request(tls, "ok")
    /\ UNCHANGED <<phase, domains, i, middleware, builderVars, codecVars, readerVars, lockVars>>

\* request paths with "..", "." and empty segments under the prefix /a
StaticPaths ==
    { <<"/", "a", "/", "f.css">>,
      <<"/", "a", "/", ".", "/", "f.css">>,
      <<"/", "a", "/", "b", "/", "..", "/", "f.css">>,
      <<"/", "a", "/", "..", "/", "key.pem">>,
      <<"/", "a", "/", "b", "/", "..", "/", "..", "/", "key.pem">>,
      <<"/", "a", "/", "/", "etc", "/", "passwd">>,
      <<"/", "a", "/", "/", "f.css">>,
      <<"/", "a", "/">>,
      <<"/", "a", "/", "b", "/", "f.css">> }

StaticRawRequests ==
    { RawRequest([method |-> "GET", route |-> route, host |-> Some(BaseDomain)]) :
         route \in StaticPaths }

ParsedStatic == [raw \in StaticRawRequests |-> parse(raw)]

\* Client::handle for the bytes of a request for a path under a static prefix
HandleStaticRequest(raw) ==
    /\ pc = "handle"
    /\ i < MaxExchanges
    /\ ParsedStatic[raw] # None
    /\ LET req == ParsedStatic[raw][1]
           mw == apply_request_middleware(req)
           routed == handle_routing(mw.request, NoUpstream)
           after == apply_response_middleware(req, routed.response)
       IN /\ ~mw.panics
          /\ ~routed.escaped
          /\ routed.via = "Static"
          /\ request' = Some(req)
          /\ pc' = "returned"
          /\ dispatch' = routed
          /\ written' = Some(after.response)
          /\ sent' = sent + 1
          /\ ret' = HandleReturn(after.response)
          /\ ran' = [request |-> mw.ran, response |-> after.ran]
    /\ tls' = read_raw_request(tls, "ok")
    /\ UNCHANGED <<phase, domains, i, poisoned, middleware, builderVars, codecVars, readerVars, lockVars>>

\* Client::handle for a request whose response cannot be written: in
\* send_response the plain `let _ = self.stream.write_all(..)` drops the error
\* and the TLS branch logs it and returns; Client::handle ends as after a
\* successful write
HandleWriteFails(raw, env) ==
    /\ pc = "handle"
    /\ i < MaxExchanges
    /\ Parsed[raw] # None
    /\ IF env = NoUpstream THEN TRUE ELSE env \in EnvChoices(Parsed[raw][1])
    /\ LET req == Parsed[raw][1]
           mw == apply_request_middleware(req)
           routed == handle_routing(mw.request, env)
           after == apply_response_middleware(req, routed.response)
       IN /\ ~mw.panics
          /\ ~routed.escaped
          /\ request' = Some(req)
          /\ pc' = "returned"
          /\ dispatch' = routed
          /\ written' = None
          /\ ret' = HandleReturn(after.response)
          /\ ran' = [request |-> mw.ran, response |-> after.ran]
    /\ tls' = [read_raw_request(tls, "ok") EXCEPT !.broken = TRUE]
    /\ UNCHANGED <<phase, domains, i, sent, poisoned, middleware, builderVars, codecVars, readerVars, lockVars>>

\* variant of the loop that continues after every Some(_) directive
LoopContinue_AnyDirective ==
    /\ pc = "returned"
    /\ ret # None
    /\ i' = i + 1
    /\ pc' = "handle"
    /\ request' = None
    /\ dispatch' = NoDispatch
    /\ written' = None
    /\ ran' = NoRan
    /\ UNCHANGED <<phase, domains, ret, sent, poisoned, middleware, tls, builderVars, codecVars, readerVars, lockVars>>

\* the loop of the worker thread: `Some(KeepAlive) => { i += 1; continue }`;
\* the locals of the finished Client::handle call are gone
LoopContinue ==
    /\ pc = "returned"
    /\ ret = Some("keep-alive")
    /\ i' = i + 1
    /\ pc' = "handle"
    /\ request' = None
    /\ dispatch' = NoDispatch
    /\ written' = None
    /\ ran' = NoRan
    /\ UNCHANGED <<phase, domains, ret, sent, poisoned, middleware, tls, builderVars, codecVars, readerVars, lockVars>>

\* `Some(_) => break` and `None => break`
LoopBreak ==
    /\ pc = "returned"
    /\ ret # Some("keep-alive")
    /\ pc' = "closed"
    /\ request' = None
    /\ dispatch' = NoDispatch
    /\ written' = None
    /\ ran' = NoRan
    /\ UNCHANGED <<phase, domains, i, ret, sent, poisoned, middleware, tls, builderVars, codecVars, readerVars, lockVars>>

----------------------------------------------------------------------------
(* Response builder and serializer: webserver/responses/mod.rs,            *)
(* webserver/http_packet/header/mod.rs                                     *)

MaxBody == 2        \* length of the bodies built from Bytes

Bytes == {"x", CR, LF}

RECURSIVE SeqsUpTo(_, _)
SeqsUpTo(S, n) ==
    IF n = 0 THEN {<<>>}
    ELSE LET shorter == SeqsUpTo(S, n - 1)
         IN shorter \cup { Append(q, b) : q \in { t \in shorter : Len(t) = n - 1 }, b \in S }

LongBody == [k \in 1..12 |-> "x"]      \* a body whose length has two digits

Bodies == SeqsUpTo(Bytes, MaxBody) \cup {LongBody, <<CR, LF, CR, LF>>}

DigitAtom(d) ==
    CASE d = 0 -> "0" [] d = 1 -> "1" [] d = 2 -> "2" [] d = 3 -> "3" [] d = 4 -> "4"
      [] d = 5 -> "5" [] d = 6 -> "6" [] d = 7 -> "7" [] d = 8 -> "8" [] d = 9 -> "9"

\* format!("{}", n) of an unsigned number: its decimal digits
RECURSIVE to_decimal(_)
to_decimal(n) ==
    IF n < 10 THEN <<DigitAtom(n)>> ELSE Append(to_decimal(n \div 10), DigitAtom(n % 10))

\* StatusCode::to_string
reason_phrase(code) ==
    CASE code = Ok -> "OK"
      [] code = Created -> "Created"
      [] code = NotFound -> "Not Found"
      [] code = TemporaryRedirect -> "Temporary Redirect"
      [] code = PermanentRedirect -> "Permanent Redirect"
      [] OTHER -> "Internal Server Error"

\* HTTPHeader::new(HashMap::new()) inside HTTPResponse::new(status_code)
HTTPResponse_new(status_code) ==
    [status_code |-> status_code,
     http_version |-> "HTTP/1.1",
     values |-> << >>,
     content_type |-> "text/html",
     content_length |-> None,
     connection |-> "keep-alive",
     body |-> None]

\* variant that keeps a Content-Length already set
set_body_stale(r, body) ==
    [r EXCEPT !.content_length = IF @ = None THEN Some(Len(body)) ELSE @,
              !.body = Some(body)]

\* HTTPResponse::set_body
set_body(r, body) ==
    [r EXCEPT !.content_length = Some(Len(body)), !.body = Some(body)]

\* HTTPHeader::add_header: HashMap insert
add_header(r, key, value) ==
    [r EXCEPT !.values =
        [k \in DOMAIN r.values \cup {key} |-> IF k = key THEN value ELSE r.values[k]]]

\* HTTPHeader::set_location through HTTPResponse::set_location
set_location(r, url) == add_header(r, "Location", url)

\* HTTPResponse::redirect
redirect(location, permanent) ==
    LET status == IF permanent THEN TemporaryRedirect ELSE PermanentRedirect
    IN set_location(HTTPResponse_new(status), location)

HeaderLine(name, value) == <<name, ":", SP>> \o value \o CRLF

\* HTTPHeader::as_str: the entries of `values` in the iteration order `order`
RECURSIVE header_lines(_, _)
header_lines(values, order) ==
    IF order = <<>> THEN <<>>
    ELSE HeaderLine(order[1], <<values[order[1]]>>) \o header_lines(values, Tail(order))

\* the orders in which a HashMap with these keys may be iterated
Orders(keys) ==
    { o \in [1..Cardinality(keys) -> keys] : \A a, b \in DOMAIN o : a # b => o[a] # o[b] }

\* HTTPResponse::to_bytes, the `values` map iterated in the given order
to_bytes(r, order) ==
    <<r.http_version, SP>> \o to_decimal(r.status_code) \o <<SP, reason_phrase(r.status_code)>>
      \o CRLF
      \o HeaderLine("Content-Type", <<r.content_type>>)
      \o (IF r.content_length # None
          THEN HeaderLine("Content-Length", to_decimal(r.content_length[1]))
          ELSE <<>>)
      \o HeaderLine("Connection", <<r.connection>>)
      \o header_lines(r.values, order)
      \o CRLF
      \o (IF r.body # None THEN r.body[1] ELSE <<>>)

\* calls made on the response under construction
RespNew(status_code) ==
    /\ resp' = HTTPResponse_new(status_code)
    /\ wire' = None
    /\ UNCHANGED <<serverVars, codecVars, readerVars, lockVars>>

RespRedirect(location, permanent) ==
    /\ resp' = redirect(location, permanent)
    /\ wire' = None
    /\ UNCHANGED <<serverVars, codecVars, readerVars, lockVars>>

RespSetBody(body) ==
    /\ resp' = set_body(resp, body)
    /\ wire' = None
    /\ UNCHANGED <<serverVars, codecVars, readerVars, lockVars>>

RespAddHeader(key, value) ==
    /\ resp' = add_header(resp, key, value)
    /\ wire' = None
    /\ UNCHANGED <<serverVars, codecVars, readerVars, lockVars>>

RespToBytes ==
    /\ \E order \in Orders(DOMAIN resp.values) : wire' = Some(to_bytes(resp, order))
    /\ UNCHANGED <<serverVars, resp, codecVars, readerVars, lockVars>>

----------------------------------------------------------------------------
(* Specification *)

----------------------------------------------------------------------------
(* The chunked coding of an upstream body and its decoding: proxy/mod.rs *)

MaxChunks == 2      \* chunks of one body

\* a chunk of 26 bytes: its length takes two hexadecimal digits, one a letter
LongChunk == [k \in 1..26 |-> "W"]

\* chunk data, with bytes that look like chunk framing
ChunkData ==
    { <<"W">>, <<"W", "i">>, <<LF>>, <<"0", CR, LF>>, <<"1", CR, LF, "W">>, LongChunk }

ChunkSeqs == UNION { [1..n -> ChunkData] : n \in 1..MaxChunks }

\* what may follow the zero-length chunk: nothing, a trailer field, or bytes
\* that look like a further chunk
Trailers ==
    { <<>>, <<"X-Trailer", ":", SP, "v">> \o CRLF, <<"1">> \o CRLF \o <<"Z">> \o CRLF }

HexAtom(d, upper) ==
    IF d < 10 THEN DigitAtom(d)
    ELSE IF upper
    THEN CASE d = 10 -> "A" [] d = 11 -> "B" [] d = 12 -> "C"
           [] d = 13 -> "D" [] d = 14 -> "E" [] OTHER -> "F"
    ELSE CASE d = 10 -> "a" [] d = 11 -> "b" [] d = 12 -> "c"
           [] d = 13 -> "d" [] d = 14 -> "e" [] OTHER -> "f"

\* the hexadecimal digits of a chunk length
RECURSIVE to_hex(_, _)
to_hex(n, upper) ==
    IF n < 16 THEN <<HexAtom(n, upper)>>
    ELSE Append(to_hex(n \div 16, upper), HexAtom(n % 16, upper))

\* the chunked coding of a sequence of chunks: length, CRLF, data, CRLF for
\* each chunk, then the zero-length chunk, the trailer and the final CRLF
RECURSIVE ChunkedCoding(_, _, _)
ChunkedCoding(cs, upper, trailer) ==
    IF cs = <<>> THEN <<"0">> \o CRLF \o trailer \o CRLF
    ELSE to_hex(Len(cs[1]), upper) \o CRLF \o cs[1] \o CRLF
           \o ChunkedCoding(Tail(cs), upper, trailer)

RECURSIVE Concat(_)
Concat(cs) == IF cs = <<>> THEN <<>> ELSE cs[1] \o Concat(Tail(cs))

\* the upstream sends the chunked coding of its body
ChunkEncode(upper, trailer) ==
    /\ encoded = None
    /\ encoded' = Some(ChunkedCoding(chunks, upper, trailer))
    /\ UNCHANGED <<serverVars, builderVars, chunks, decoded, readerVars, lockVars>>

\* parse_http_response_bytes hands the raw body to decode_chunked_body
ChunkDecode ==
    /\ encoded # None
    /\ decoded = None
    /\ decoded' = Some(decode_chunked_body(encoded[1]))
    /\ UNCHANGED <<serverVars, builderVars, chunks, encoded, readerVars, lockVars>>

\* the chunked coding of chunks with no zero-length chunk behind them
RECURSIVE ChunkedPrefix(_)
ChunkedPrefix(cs) ==
    IF cs = <<>> THEN <<>>
    ELSE to_hex(Len(cs[1]), FALSE) \o CRLF \o cs[1] \o CRLF \o ChunkedPrefix(Tail(cs))

\* the chunks sent whole before the input goes wrong
WholeChunks ==
    UNION { [1..n -> { <<"W">>, <<"W", "i">>, <<LF>> }] : n \in 0..MaxChunks }

SixteenF == [k \in 1..16 |-> "f"]

\* how an input goes wrong: it just ends (no zero-length chunk), its last
\* chunk is cut short, its size line is no hexadecimal number or has 17
\* digits, its size is of 8 or of 16 digits and far beyond the input, or
\* its size is usize::MAX or close enough to it that pos + size overflows
MalformedTails ==
    { <<>>,
      <<"5">> \o CRLF \o <<"W", "i">>,
      <<"z", "z">> \o CRLF \o <<"W">>,
      Append(SixteenF, "f") \o CRLF \o <<"W">>,
      <<"8", "0", "0", "0", "0", "0", "0", "0">> \o CRLF \o <<"W">>,
      <<"7">> \o SubSeq(SixteenF, 1, 15) \o CRLF \o <<"W">>,
      SixteenF \o CRLF \o <<"W">>,
      SubSeq(SixteenF, 1, 15) \o <<"0">> \o CRLF \o <<"W">> }

\* decode_chunked_body called by the worker on the bytes read
DecodeChunked ==
    /\ encoded # None
    /\ decoded = None
    /\ pc # "panicked"
    /\ IF decode_chunked_panics(encoded[1], 0)
       THEN pc' = "panicked" /\ decoded' = None
       ELSE pc' = pc /\ decoded' = Some(decode_chunked_body(encoded[1]))
    /\ UNCHANGED <<phase, domains, i, ret, request, dispatch, written, sent, poisoned, middleware,
                   ran, tls, builderVars, chunks, encoded, readerVars, lockVars>>

\* header lines an upstream may frame its answer with
TransferEncodingLines ==
    { <<>>,
      <<"Transfer-Encoding", ":", SP, "chunked">> \o CRLF,
      <<"transfer-encoding", ":", SP, "gzip, chunked">> \o CRLF,
      <<"Transfer-Encoding", ":", SP, "identity">> \o CRLF }

ContentLengthLines ==
    { <<>>,
      <<"Content-Length", ":", SP, "0">> \o CRLF,
      <<"Content-Length", ":", SP, "2">> \o CRLF,
      <<"content-length", ":", SP, "9">> \o CRLF,
      <<"Content-Length", ":", SP, "x">> \o CRLF }

\* the chunk sequences the framed answers carry in chunked coding
FramedChunks == { << <<"W", "i">> >>, << <<"W">>, <<"i", "k">> >> }

\* bytes after the header block: nothing, plain bytes, bytes holding a second
\* CRLFCRLF, chunked codings, and a chunk cut short
FramedBodies ==
    { <<>>, <<"W", "i">>, <<"W">> \o CRLF \o CRLF \o <<"i", "k">>,
      <<"5">> \o CRLF \o <<"W", "i">> }
      \cup { ChunkedCoding(cs, FALSE, <<>>) : cs \in FramedChunks }

FramedAnswers ==
    { StatusLine("200") \o te \o cl \o CRLF \o b :
         te \in TransferEncodingLines, cl \in ContentLengthLines, b \in FramedBodies }

\* Proxy::parse_http_response_bytes applied to the bytes read from the upstream
ParseResponse ==
    /\ encoded # None
    /\ decoded = None
    /\ decoded' = Some(parse_http_response_bytes(encoded[1]).body)
    /\ UNCHANGED <<serverVars, builderVars, chunks, encoded, readerVars, lockVars>>

----------------------------------------------------------------------------
(* Header lookup when the header map is iterated in any order *)

\* variant of the lookup that compares names exactly
get_header_exact(values, header, order) ==
    IF header \in DOMAIN values THEN Some(values[header]) ELSE None

\* HTTPHeader::get_header with `for (k, v) in &self.values` visiting the keys
\* in the order `order`: exact match first, then the first key equal in
\* lower case
get_header_in(values, header, order) ==
    LET lower(n) == [k \in 1..Len(n) |-> lower_header_name(n[k])]
        hits == { k \in 1..Len(order) : lower(order[k]) = lower(header) }
    IN IF header \in DOMAIN values THEN Some(values[header])
       ELSE IF hits = {} THEN None
       ELSE Some(values[order[CHOOSE k \in hits : \A l \in hits : k <= l]])

\* the header map HTTPRequest::parse builds from the lines after the first
header_map_of(raw_request) == parse_headers(Tail(lines(raw_request)), <<>>)

\* HTTPRequest::parse, the Host looked up with the map iterated in `order`
parse_in(raw_request, order) ==
    LET ls == lines(raw_request)
        parts == split_whitespace(ls[1])
        method == HTTPMethod_from_str(parts[1])
    IN IF \E k \in 1..Len(raw_request) : raw_request[k] = "0xFF" THEN None
       ELSE IF ls = <<>> THEN None
       ELSE IF Len(parts) # 3 THEN None
       ELSE IF method = None THEN None
       ELSE Some([method |-> method[1], route |-> parts[2],
                  host |-> get_header_in(header_map_of(raw_request), <<"Host">>, order)])

\* header lines a client may send: the Host under three spellings of its
\* name, under two spellings at once, or not at all; a Content-Type or none
HostLines ==
    { <<>>,
      <<"Host", ":", SP>> \o BaseDomain \o CRLF,
      <<"host", ":", SP>> \o SubDomain \o CRLF,
      <<"HOST", ":", SP>> \o SubDomain \o CRLF,
      <<"Host", ":", SP>> \o BaseDomain \o CRLF \o <<"HOST", ":", SP>> \o SubDomain \o CRLF }

ContentTypeLines ==
    { <<>>,
      <<"Content-Type", ":", SP, "text/css">> \o CRLF,
      <<"content-type", ":", SP, "text/css">> \o CRLF }

HeaderRawRequests ==
    { <<"GET", SP, "/", "a", SP, "HTTP/1.1">> \o CRLF \o h \o c \o CRLF :
         h \in HostLines, c \in ContentTypeLines }

\* Client::handle for the bytes `raw`, the header map iterated in `order`
HandleHeaderRequest(raw, order) ==
    /\ pc = "handle"
    /\ i < MaxExchanges
    /\ parse_in(raw, order) # None
    /\ LET req == parse_in(raw, order)[1]
           mw == apply_request_middleware(req)
           routed == handle_routing(mw.request, NoUpstream)
           after == apply_response_middleware(req, routed.response)
       IN /\ request' = Some(req)
          /\ IF mw.panics
             THEN /\ pc' = "panicked"
                  /\ dispatch' = NoDispatch
                  /\ written' = None
                  /\ ran' = [request |-> mw.ran, response |-> <<>>]
                  /\ UNCHANGED <<ret, sent>>
             ELSE /\ pc' = "returned"
                  /\ dispatch' = routed
                  /\ written' = Some(after.response)
                  /\ sent' = sent + 1
                  /\ ret' = HandleReturn(after.response)
                  /\ ran' = [request |-> mw.ran, response |-> after.ran]
    /\ tls' = read_raw_request(tls, "ok")
    /\ handed' = Some(raw)
    /\ UNCHANGED <<phase, domains, i, poisoned, middleware, builderVars, codecVars, stream,
                   lockVars>>

----------------------------------------------------------------------------
(* Requests with and without the Host and Cookie headers *)

\* parse_cookies: for every `;`-separated part of the Cookie value that has
\* an `=`, Cookie::new(.., &Domain::new(self.host().unwrap().as_str())); the
\* unwrap panics when the request has no Host header
parse_cookies_panics(raw_request) ==
    LET headers == header_map_of(raw_request)
        cookie_header == get_header(headers, <<"Cookie">>)
    IN /\ cookie_header # None
       /\ Find(cookie_header[1], "=") # 0
       /\ get_header(headers, <<"Host">>) = None

HostOrNoneLines == { <<>>, <<"Host", ":", SP>> \o BaseDomain \o CRLF }

CookieLines ==
    { <<>>,
      <<"Cookie", ":", SP, "sid", "=", "1">> \o CRLF,
      <<"Cookie", ":", SP, "sid">> \o CRLF }

CookieRawRequests ==
    { <<"GET", SP>> \o path \o <<SP, "HTTP/1.1">> \o CRLF \o h \o c \o CRLF :
         path \in {<<"/", "a">>, <<"/", "b">>}, h \in HostOrNoneLines, c \in CookieLines }

\* Client::handle for the bytes `raw`: the parse with its cookie pass, then
\* the three phases and the write
HandleCookieRequest(raw) ==
    /\ pc = "handle"
    /\ i < MaxExchanges
    /\ parse(raw) # None
    /\ LET req == parse(raw)[1]
           mw == apply_request_middleware(req)
           routed == handle_routing(mw.request, NoUpstream)
           after == apply_response_middleware(req, routed.response)
       IN IF parse_cookies_panics(raw)
          THEN /\ pc' = "panicked"
               /\ request' = None
               /\ dispatch' = NoDispatch
               /\ written' = None
               /\ ran' = NoRan
               /\ UNCHANGED <<ret, sent>>
          ELSE IF mw.panics
          THEN /\ pc' = "panicked"
               /\ request' = Some(req)
               /\ dispatch' = NoDispatch
               /\ written' = None
               /\ ran' = [request |-> mw.ran, response |-> <<>>]
               /\ UNCHANGED <<ret, sent>>
          ELSE /\ pc' = "returned"
               /\ request' = Some(req)
               /\ dispatch' = routed
               /\ written' = Some(after.response)
               /\ sent' = sent + 1
               /\ ret' = HandleReturn(after.response)
               /\ ran' = [request |-> mw.ran, response |-> after.ran]
    /\ tls' = read_raw_request(tls, "ok")
    /\ handed' = Some(raw)
    /\ UNCHANGED <<phase, domains, i, poisoned, middleware, builderVars, codecVars, stream,
                   lockVars>>

----------------------------------------------------------------------------
(* Locking of the shared route tables: the registration calls of            *)
(* webserver/mod.rs and the lookups of client_handling/mod.rs, one step per *)
(* lock operation                                                           *)

Main == "main"              \* the thread that makes the registration calls
Workers == {"w1", "w2"}     \* connection worker threads
Threads == {Main} \cup Workers

\* the Mutex around the domain map, and the Mutex around a domain's Vec<Route>
DomainsLock == <<"domains">>
RoutesLock(d) == <<"routes", d>>
LockDomains == {BaseDomain, SubDomain}
Locks == {DomainsLock} \cup { RoutesLock(d) : d \in LockDomains }

Idle == [at |-> "idle", domain |-> None]

InitLocks ==
    /\ holder = [l \in Locks |-> None]
    /\ tpc = [t \in Threads |-> Idle]
    /\ seen = [w \in Workers |-> None]

\* variant of a Mutex that never makes a thread wait
lock_ready_always(h, l) == TRUE

\* Mutex::lock().unwrap() returns only when no thread holds the Mutex, and
\* panics on the Mutex of the domain map once that is poisoned
lock_ready(h, l) == h[l] = None /\ (l = DomainsLock => ~poisoned)

\* `let mut guard = self.domains.lock().unwrap();` of a registration call
RegLockDomains(d) ==
    /\ tpc[Main].at = "idle"
    /\ TotalRoutes < MaxRoutes
    /\ lock_ready(holder, DomainsLock)
    /\ holder' = [holder EXCEPT ![DomainsLock] = Some(Main)]
    /\ tpc' = [tpc EXCEPT ![Main] = [at |-> "guard", domain |-> Some(d)]]
    /\ UNCHANGED <<serverVars, builderVars, codecVars, readerVars, seen>>

\* guard.entry(domain).or_insert_with(|| Arc::new(Mutex::new(Vec::new())))
RegEntry ==
    /\ tpc[Main].at = "guard"
    /\ LET d == tpc[Main].domain[1]
       IN domains' = IF d \in DOMAIN domains THEN domains
                     ELSE [x \in DOMAIN domains \cup {d} |->
                              IF x = d THEN <<>> ELSE domains[x]]
    /\ tpc' = [tpc EXCEPT ![Main].at = "entry"]
    /\ UNCHANGED <<phase, pc, i, ret, request, dispatch, written, sent, poisoned, middleware,
                   ran, tls, builderVars, codecVars, readerVars, holder, seen>>

\* `let mut routes = domain_routes.lock().unwrap();`
RegLockRoutes ==
    /\ tpc[Main].at = "entry"
    /\ lock_ready(holder, RoutesLock(tpc[Main].domain[1]))
    /\ holder' = [holder EXCEPT ![RoutesLock(tpc[Main].domain[1])] = Some(Main)]
    /\ tpc' = [tpc EXCEPT ![Main].at = "routes"]
    /\ UNCHANGED <<serverVars, builderVars, codecVars, readerVars, seen>>

\* routes.push(Route::new_file(..))
RegPush(route) ==
    /\ tpc[Main].at = "routes"
    /\ LET d == tpc[Main].domain[1]
       IN domains' = PushRoute(domains, d, new_file(route, "GET", Ok, d, HtmlHi))
    /\ tpc' = [tpc EXCEPT ![Main].at = "pushed"]
    /\ UNCHANGED <<phase, pc, i, ret, request, dispatch, written, sent, poisoned, middleware,
                   ran, tls, builderVars, codecVars, readerVars, holder, seen>>

\* the end of the block: `routes` is dropped, then `guard`
RegUnlock ==
    /\ tpc[Main].at = "pushed"
    /\ holder' = [l \in Locks |-> IF holder[l] = Some(Main) THEN None ELSE holder[l]]
    /\ tpc' = [tpc EXCEPT ![Main] = Idle]
    /\ UNCHANGED <<serverVars, builderVars, codecVars, readerVars, seen>>

\* `let guard = self.domains.lock().unwrap();` of Client::handle_routing
WorkerLockDomains(w, host) ==
    /\ tpc[w].at = "idle"
    /\ lock_ready(holder, DomainsLock)
    /\ holder' = [holder EXCEPT ![DomainsLock] = Some(w)]
    /\ tpc' = [tpc EXCEPT ![w] = [at |-> "guard", domain |-> Some(host)]]
    /\ UNCHANGED <<serverVars, builderVars, codecVars, readerVars, seen>>

\* guard.get(&current_domain).or_else(|| guard.get(&self.default_domain))
WorkerGetRoutes(w) ==
    /\ tpc[w].at = "guard"
    /\ LET table == ResolveDomain(domains, tpc[w].domain[1])
       IN /\ tpc' = [tpc EXCEPT ![w] = [at |-> "lookup", domain |-> table]]
          /\ seen' = [seen EXCEPT ![w] = IF table = None THEN None
                                         ELSE Some(domains[table[1]])]
    /\ UNCHANGED <<serverVars, builderVars, codecVars, readerVars, holder>>

\* the lookups in the tables and the dispatch, then the end of
\* handle_routing, where `guard` is dropped
WorkerDispatch(w) ==
    /\ tpc[w].at = "lookup"
    /\ holder' = [l \in Locks |-> IF holder[l] = Some(w) THEN None ELSE holder[l]]
    /\ tpc' = [tpc EXCEPT ![w] = [at |-> "routed", domain |-> None]]
    /\ seen' = [seen EXCEPT ![w] = None]
    /\ UNCHANGED <<serverVars, builderVars, codecVars, readerVars>>

\* the dispatch reaches a call that takes time: the handler of a custom route
\* (inside catch_unwind) or Proxy::connect_to_server and send_http(s)_request,
\* which reads until the upstream closes; `guard` is still alive
WorkerDispatchBlocks(w) ==
    /\ tpc[w].at = "lookup"
    /\ tpc' = [tpc EXCEPT ![w].at = "blocked"]
    /\ UNCHANGED <<serverVars, builderVars, codecVars, readerVars, holder, seen>>

\* the call returns, the response is built, and handle_routing ends
WorkerDispatchResumes(w) ==
    /\ tpc[w].at = "blocked"
    /\ holder' = [l \in Locks |-> IF holder[l] = Some(w) THEN None ELSE holder[l]]
    /\ tpc' = [tpc EXCEPT ![w] = [at |-> "routed", domain |-> None]]
    /\ seen' = [seen EXCEPT ![w] = None]
    /\ UNCHANGED <<serverVars, builderVars, codecVars, readerVars>>

\* the upstream's answer makes decode_chunked_body panic: the panic unwinds
\* out of handle_routing through `guard`, the Mutex is released poisoned and
\* the worker thread ends
WorkerDispatchPanics(w) ==
    /\ tpc[w].at = "blocked"
    /\ holder' = [l \in Locks |-> IF holder[l] = Some(w) THEN None ELSE holder[l]]
    /\ tpc' = [tpc EXCEPT ![w] = [at |-> "panicked", domain |-> None]]
    /\ seen' = [seen EXCEPT ![w] = None]
    /\ poisoned' = TRUE
    /\ UNCHANGED <<phase, domains, pc, i, ret, request, dispatch, written, sent, middleware,
                   ran, tls, builderVars, codecVars, readerVars>>

\* self.domains.lock().unwrap() on the poisoned Mutex: the thread panics
LockPoisoned(t) ==
    /\ poisoned
    /\ holder[DomainsLock] = None
    /\ tpc[t].at \in {"idle", "routed"}
    /\ t = Main => TotalRoutes < MaxRoutes
    /\ tpc' = [tpc EXCEPT ![t] = [at |-> "panicked", domain |-> None]]
    /\ UNCHANGED <<serverVars, builderVars, codecVars, readerVars, holder, seen>>

\* apply_response_middleware: self.domains.lock().unwrap() in the arguments
\* of the ResponseBothWithRoutes call
WorkerLockForMiddleware(w) ==
    /\ tpc[w].at = "routed"
    /\ lock_ready(holder, DomainsLock)
    /\ holder' = [holder EXCEPT ![DomainsLock] = Some(w)]
    /\ tpc' = [tpc EXCEPT ![w] = [at |-> "middleware", domain |-> Some(BaseDomain)]]
    /\ seen' = [seen EXCEPT ![w] = Some(domains[BaseDomain])]
    /\ UNCHANGED <<serverVars, builderVars, codecVars, readerVars>>

\* the call returns and the temporary guard is dropped
WorkerMiddlewareDone(w) ==
    /\ tpc[w].at = "middleware"
    /\ holder' = [l \in Locks |-> IF holder[l] = Some(w) THEN None ELSE holder[l]]
    /\ tpc' = [tpc EXCEPT ![w] = Idle]
    /\ seen' = [seen EXCEPT ![w] = None]
    /\ UNCHANGED <<serverVars, builderVars, codecVars, readerVars>>

----------------------------------------------------------------------------
(* Specifications *)

InitServer ==
    /\ phase = "config"
    /\ domains = [d \in {BaseDomain} |-> <<>>]
    /\ pc = "main"
    /\ i = 0
    /\ ret = None
    /\ request = None
    /\ dispatch = NoDispatch
    /\ written = None
    /\ sent = 0
    /\ poisoned = FALSE
    /\ middleware = Middlewares
    /\ ran = NoRan
    /\ resp = HTTPResponse_new(Ok)
    /\ wire = None

Init ==
    /\ InitServer
    /\ tls = NoTls
    /\ chunks = <<>>
    /\ encoded = None
    /\ decoded = None
    /\ stream = <<>>
    /\ handed = None
    /\ InitLocks

\* the arguments the registration calls are made with
FileArgs ==
    [route : Patterns, status : {Ok}, domain : {None}]
      \cup { [route |-> <<"/", "a">>, status |-> Created, domain |-> None],
             [route |-> <<"/", "a">>, status |-> Ok, domain |-> Some(SubName)] }

StaticArgs ==
    [route : Patterns, domain : {None}]
      \cup { [route |-> <<"/", "a">>, domain |-> Some(SubName)] }

CustomArgs == [route : { <<"/", "a">> }, f : Handlers]

Register ==
    \/ add_subdomain_router(SubName)
    \/ \E a \in FileArgs : add_route_file(a.route, "GET", HtmlHi, a.status, a.domain)
    \/ \E a \in StaticArgs : add_static_route(a.route, "GET", WwwFolder, Ok, a.domain)
    \/ \E a \in CustomArgs : add_custom_route(a.route, "GET", a.f, Ok, None)
    \/ add_error_route(NotFound, ErrHtml, NotFound, None)
    \/ add_proxy_route(<<"/", "a">>, ExternalUrl, Ok, None)

Next ==
    \/ Register
    \/ Start
    \/ Accept
    \/ HandleReadFails
    \/ \E raw \in RawRequests : HandleParseFails(raw)
    \/ \E raw \in RawRequests, env \in Envs : HandleRequest(raw, env)
    \/ LoopContinue
    \/ LoopBreak

Spec == Init /\ [][Next]_vars

\* a server whose ServerConfig has a certificate: every connection is TLS
InitTls ==
    /\ InitServer
    /\ tls = [NoTls EXCEPT !.tls_config = TRUE]
    /\ chunks = <<>>
    /\ encoded = None
    /\ decoded = None
    /\ stream = <<>>
    /\ handed = None
    /\ InitLocks

NextTls ==
    \/ add_route_file(<<"/", "a">>, "GET", HtmlHi, Ok, None)
    \/ \E f \in Handlers : add_custom_route(<<"/", "x">>, "GET", f, Ok, None)
    \/ Start
    \/ Accept
    \/ HandleTlsHandshakeFails
    \/ HandleReadFails
    \/ \E raw \in RawRequests : HandleParseFails(raw)
    \/ \E raw \in RawRequests, env \in Envs : HandleRequest(raw, env)
    \/ LoopContinue
    \/ LoopBreak

SpecTls == InitTls /\ [][NextTls]_vars

\* a plain or a TLS server whose connections may fail while reading and while
\* writing
InitIo ==
    /\ InitServer
    /\ tls \in {NoTls, [NoTls EXCEPT !.tls_config = TRUE]}
    /\ chunks = <<>>
    /\ encoded = None
    /\ decoded = None
    /\ stream = <<>>
    /\ handed = None
    /\ InitLocks

NextIo ==
    \/ NextTls
    \/ \E raw \in RawRequests, env \in Envs : HandleWriteFails(raw, env)

SpecIo == InitIo /\ [][NextIo]_vars

\* user-supplied middleware entries: kind, domain filter, route filter
UserMiddlewareArgs ==
    [f : {"Request", "Response", "Both"},
     domain : {None, Some(BaseDomain), Some(SubDomain)},
     route : {None, Some(<<"/", "a">>), Some(<<"/", "x">>)}]

\* a server with user-supplied middleware behind the built-in entries
NextMw ==
    \/ \E a \in UserMiddlewareArgs : add_middleware(a.domain, a.route, a.f)
    \/ add_route_file(<<"/", "a">>, "GET", HtmlHi, Ok, None)
    \/ Start
    \/ Accept
    \/ HandleReadFails
    \/ \E raw \in RawRequests : HandleParseFails(raw)
    \/ \E raw \in RawRequests, env \in Envs : HandleRequest(raw, env)
    \/ LoopContinue
    \/ LoopBreak

SpecMw == Init /\ [][NextMw]_vars

\* targets given to HTTPResponse::redirect
Locations == {"/login", "https://example.test/new"}

\* the response builder on its own: any sequence of builder calls, then to_bytes
NextResp ==
    \/ \E status_code \in {Ok, NotFound} : RespNew(status_code)
    \/ \E location \in Locations, permanent \in BOOLEAN : RespRedirect(location, permanent)
    \/ \E body \in Bodies : RespSetBody(body)
    \/ \E key \in {"Server", "Content-Length"}, value \in {"sunweb", "7"} :
          RespAddHeader(key, value)
    \/ RespToBytes

SpecResp == Init /\ [][NextResp]_vars

\* a server with a file route on the default domain and on the subdomain,
\* asked with the header lines of HeaderRawRequests
NextHeader ==
    \/ add_subdomain_router(SubName)
    \/ \E d \in {None, Some(SubDomain)} : add_route_file(<<"/", "a">>, "GET", HtmlHi, Ok, d)
    \/ Start
    \/ Accept
    \/ \E raw \in HeaderRawRequests :
          \E order \in Orders(DOMAIN header_map_of(raw)) : HandleHeaderRequest(raw, order)
    \/ LoopContinue

SpecHeader == Init /\ [][NextHeader]_vars

\* a server with file routes on the default domain, asked with and without
\* the Host and Cookie headers
NextCookie ==
    \/ \E path \in {<<"/", "a">>, <<"/", "b">>} : add_route_file(path, "GET", HtmlHi, Ok, None)
    \/ Start
    \/ Accept
    \/ \E raw \in CookieRawRequests : HandleCookieRequest(raw)
    \/ LoopContinue

SpecCookie == Init /\ [][NextCookie]_vars

\* the names main may give its subdomain, as written and in lower case
SubNames == { SubName, to_lowercase(SubName) }

SubRawRequests ==
    { <<"GET", SP, "/", "a", SP, "HTTP/1.1">> \o CRLF \o h \o CRLF :
         h \in { <<"Host", ":", SP>> \o BaseDomain \o CRLF,
                 <<"Host", ":", SP>> \o SubDomain \o CRLF,
                 <<"host", ":", SP>> \o SubDomain \o CRLF } }

\* main: add_subdomain_router(&api), add_route_file(.., Some(&api)) and
\* add_route_file(.., None) in any order and number, then start
NextSub ==
    \/ \E d \in SubNames : add_subdomain_router(d)
    \/ \E d \in SubNames : add_route_file(<<"/", "a">>, "GET", HtmlHi, Ok, Some(d))
    \/ add_route_file(<<"/", "a">>, "GET", ErrHtml, Ok, None)
    \/ Start
    \/ Accept
    \/ \E raw \in SubRawRequests :
          \E order \in Orders(DOMAIN header_map_of(raw)) : HandleHeaderRequest(raw, order)
    \/ LoopContinue

SpecSub == Init /\ [][NextSub]_vars

\* the chunk decoder on inputs that go wrong after some whole chunks
InitDecode ==
    /\ InitServer
    /\ tls = NoTls
    /\ chunks \in WholeChunks
    /\ encoded \in { Some(ChunkedPrefix(chunks) \o t) : t \in MalformedTails }
    /\ decoded = None
    /\ stream = <<>>
    /\ handed = None
    /\ InitLocks

NextDecode == DecodeChunked

SpecDecode == InitDecode /\ [][NextDecode]_vars

\* the framing of upstream answers on its own
InitFrame ==
    /\ InitServer
    /\ tls = NoTls
    /\ chunks = <<>>
    /\ encoded \in { Some(a) : a \in FramedAnswers }
    /\ decoded = None
    /\ stream = <<>>
    /\ handed = None
    /\ InitLocks

NextFrame == ParseResponse

SpecFrame == InitFrame /\ [][NextFrame]_vars

\* the URLs add_proxy_route is called with: well-formed ones, and ones with an
\* unsupported scheme, no "://", or a port that is no 16-bit number
ProxyUrls ==
    { ExternalUrl,
      <<"HTTPS", ":", "/", "/", "example.test">>,
      <<"Http", ":", "/", "/", "example.test", ":", "8080">>,
      <<"https", ":", "/", "/", "example.test", ":", "65535", "/">>,
      <<"http", ":", "/", "/", "example.test", ":", "65536">>,
      <<"http", ":", "/", "/", "example.test", ":", "x", "/">>,
      <<"http", ":", "/", "/", "example.test", ":">>,
      <<"ftp", ":", "/", "/", "example.test", "/">>,
      <<"ftp", ":", "/", "/", "example.test", ":", "80">>,
      <<"example.test", "/">> }

ProxyRawRequests ==
    { RawRequest([method |-> "GET", route |-> route, host |-> Some(BaseDomain)]) :
         route \in { <<"/", "a">>, <<"/", "a", "/", "f.css">> } }

\* a server with proxy routes only
NextProxy ==
    \/ \E external \in ProxyUrls : add_proxy_route(<<"/", "a">>, external, Ok, None)
    \/ Start
    \/ Accept
    \/ \E raw \in ProxyRawRequests, env \in Envs : HandleRequest(raw, env)
    \/ LoopContinue

SpecProxy == Init /\ [][NextProxy]_vars

\* a server with static folders only, asked for the paths of StaticPaths
NextStatic ==
    \/ \E a \in StaticArgs : add_static_route(a.route, "GET", WwwFolder, Ok, a.domain)
    \/ Start
    \/ Accept
    \/ \E raw \in StaticRawRequests : HandleStaticRequest(raw)
    \/ LoopContinue

SpecStatic == Init /\ [][NextStatic]_vars

\* registration calls and the lookups of two workers, interleaved at every
\* lock operation
NextLock ==
    \/ \E d \in LockDomains : RegLockDomains(d)
    \/ RegEntry
    \/ RegLockRoutes
    \/ \E route \in Patterns : RegPush(route)
    \/ RegUnlock
    \/ \E w \in Workers, host \in LockDomains : WorkerLockDomains(w, host)
    \/ \E w \in Workers : WorkerGetRoutes(w)
    \/ \E w \in Workers : WorkerDispatch(w)
    \/ \E w \in Workers : WorkerLockForMiddleware(w)
    \/ \E w \in Workers : WorkerMiddlewareDone(w)

SpecLock == Init /\ [][NextLock]_vars

\* the lock steps with dispatches that take time or panic under the guard
NextHold ==
    \/ NextLock
    \/ \E w \in Workers : WorkerDispatchBlocks(w)
    \/ \E w \in Workers : WorkerDispatchResumes(w)
    \/ \E w \in Workers : WorkerDispatchPanics(w)
    \/ \E t \in Threads : LockPoisoned(t)

SpecHold == Init /\ [][NextHold]_vars

\* the reader of a plain connection on its own: a client's message arrives
\* whole or in two segments and is read
InitRead ==
    /\ InitServer
    /\ tls = NoTls
    /\ chunks = <<>>
    /\ encoded = None
    /\ decoded = None
    /\ stream \in Streams
    /\ handed = None
    /\ InitLocks

NextRead == \E err \in BOOLEAN : ReadHttpRequest(err)

SpecRead == InitRead /\ [][NextRead]_vars

\* the chunked decoder on its own: a body is chosen, encoded and decoded
InitChunk ==
    /\ InitServer
    /\ tls = NoTls
    /\ chunks \in ChunkSeqs
    /\ encoded = None
    /\ decoded = None
    /\ stream = <<>>
    /\ handed = None
    /\ InitLocks

NextChunk ==
    \/ \E upper \in BOOLEAN, trailer \in Trailers : ChunkEncode(upper, trailer)
    \/ ChunkDecode

SpecChunk == InitChunk /\ [][NextChunk]_vars

----------------------------------------------------------------------------
(* Properties of routing and of the worker loop *)

\* Client::handle has served a request and returned to the worker loop
Served == pc = "returned" /\ request # None

\* the routes of the table handle_routing used
UsedRoutes == domains[dispatch.table[1]]

\* the routable entries of a list whose pattern is a prefix of path
Matching(routes, path) ==
    { k \in 1..Len(routes) :
        routes[k].route_type # "Error" /\ starts_with(path, routes[k].route) }

\* C1: among the routes with the request's method whose pattern is a prefix
\* of the request path, the request is dispatched to the one with the
\* longest pattern, whatever the kinds of the competing routes.
C1_LongestPrefixDispatch ==
    (Served /\ dispatch.table # None) =>
        LET cands == { k \in Matching(UsedRoutes, request[1].route) :
                         UsedRoutes[k].method = request[1].method }
        IN cands # {} =>
             /\ dispatch.pattern # None
             /\ \E k \in cands : UsedRoutes[k].route = dispatch.pattern[1]
             /\ \A k \in cands : Len(UsedRoutes[k].route) <= Len(dispatch.pattern[1])

\* C2: a request for the exact path and method of a registered File route,
\* the only route of its Host's table that matches the path, is answered
\* with that route's configured status and content.
C2_RegisteredRouteServed ==
    (Served /\ request[1].host[1] \in DOMAIN domains) =>
        LET routes == domains[request[1].host[1]]
            m == Matching(routes, request[1].route)
        IN \A k \in m :
             ( /\ m = {k}
               /\ routes[k].route_type = "File"
               /\ routes[k].route = request[1].route
               /\ routes[k].method = request[1].method )
             => /\ written[1].status = routes[k].status_code
                /\ written[1].body = routes[k].content[1]

\* C3: when every route matching the request path is registered for a method
\* other than the request's, the response status is 405.
C3_MethodMismatchIs405 ==
    (Served /\ dispatch.table # None) =>
        LET m == Matching(UsedRoutes, request[1].route)
        IN (m # {} /\ \A k \in m : UsedRoutes[k].method # request[1].method)
             => written[1].status = MethodNotAllowed

C4_FallbackServes ==
    /\ Served
    /\ request[1].host[1] \notin DOMAIN domains
    /\ dispatch.via = "File"
    /\ written[1].status = Ok

\* C5: after an exchange the worker reads a further request exactly when
\* Client::handle reported keep-alive; after any other directive, or none,
\* the loop ends, and an ended loop reads nothing more.
C5_LoopOnlyOnKeepAlive ==
    [][ /\ pc = "returned" =>
             IF ret = Some("keep-alive")
             THEN pc' = "handle" /\ i' = i + 1 /\ sent' = sent
             ELSE pc' = "closed" /\ sent' = sent
        /\ pc = "closed" => pc' = "closed" ]_vars

\* C5 witness: a keep-alive exchange was followed by a second served request
\* whose directive was close, and the loop ended after it.
C5_Witness ==
    /\ pc = "closed"
    /\ i = 1
    /\ sent = 2
    /\ ret = Some("close")

----------------------------------------------------------------------------
(* Properties of the response serializer *)

\* value of a sequence of decimal digits, as Option
RECURSIVE parse_digits(_, _)
parse_digits(ds, acc) ==
    IF ds = <<>> THEN Some(acc)
    ELSE IF HexDigit(ds[1]) < 0 \/ HexDigit(ds[1]) > 9 THEN None
    ELSE parse_digits(Tail(ds), 10 * acc + HexDigit(ds[1]))

\* the values of the Content-Length lines of a header block
ContentLengthsOf(block) ==
    LET ls == lines(block)
        value(l) == trim(split_nth(l, ":", 1)[1])
    IN { parse_digits(value(ls[k]), 0)[1] :
           k \in { j \in 1..Len(ls) :
                     /\ line_starts_with(ls[j], "content-length")
                     /\ value(ls[j]) # <<>>
                     /\ parse_digits(value(ls[j]), 0) # None } }

\* C6: a response with status 200 whose body was set to B serializes to a
\* header block containing Content-Length = length(B), followed after the
\* first CRLFCRLF by exactly the bytes of B.
C6_ContentLengthMatchesBody ==
    (wire # None /\ resp.status_code = Ok /\ resp.body # None) =>
        LET w == wire[1]
            he == find_header_end(w)
        IN /\ he # None
           /\ Len(resp.body[1]) \in ContentLengthsOf(SubSeq(w, 1, he[1]))
           /\ SubSeq(w, he[1] + 5, Len(w)) = resp.body[1]

\* C6 witness: a serialized 200 response whose body length has two digits and
\* replaced an earlier, shorter body
C6_Witness ==
    /\ wire # None
    /\ resp.status_code = Ok
    /\ resp.body = Some(LongBody)
    /\ "Server" \in DOMAIN resp.values
    /\ 12 \in ContentLengthsOf(SubSeq(wire[1], 1, find_header_end(wire[1])[1]))

----------------------------------------------------------------------------
(* Properties of the static and proxy dispatchers *)

\* the path after the matched prefix, without its leading separators
Remainder(route, prefix) == trim_start_matches(strip_prefix_or(route, prefix), "/")

\* C7: for a request under a static prefix P with folder F the file read is
\* F joined with the remainder of the path after P; the answer is 200 with
\* the extension's content type when that file exists and is non-empty, and
\* 404 otherwise.
C7_StaticServesRemainder ==
    (Served /\ dispatch.via = "Static") =>
        LET P == dispatch.pattern[1]
            F == static_routes(UsedRoutes)[P]
            expected == path_join(F, Remainder(request[1].route, P))
            read == read_to_string(expected)
        IN IF read # None /\ read[1] # <<>>
           THEN /\ written[1].status = Ok
                /\ written[1].body = read[1]
                /\ written[1].content_type = <<mime_for_extension(path_extension(expected))>>
           ELSE written[1].status = NotFound

C9_ProxyForwardsRemainder ==
    (Served /\ dispatch.via = "Proxy" /\ dispatch.upstream # None) =>
        /\ dispatch.upstream[1].scheme = "HTTP"
        /\ dispatch.upstream[1].host = <<"example.test">>
        /\ dispatch.upstream[1].port = 80
        /\ dispatch.upstream[1].path =
              <<"/">> \o Remainder(request[1].route, dispatch.pattern[1])

\* what an upstream answer declares: status, decoded body, content type
UpstreamBody(raw) ==
    CASE raw = UpstreamOkCss -> <<"W", "i">>
      [] raw = UpstreamNotFound -> <<"n", "o">>
      [] raw = UpstreamChunked -> <<"W", "i">>

UpstreamContentType(raw) ==
    CASE raw = UpstreamOkCss -> <<"text/css">>
      [] raw = UpstreamNotFound -> <<"text/plain">>
      [] raw = UpstreamChunked -> <<"text/html">>

PermissiveCors ==
    { "Access-Control-Allow-Origin", "Access-Control-Allow-Methods",
      "Access-Control-Allow-Headers", "Access-Control-Max-Age" }

\* C10: the response to a proxied request relays the upstream's status code,
\* decoded body and declared Content-Type and carries the permissive CORS
\* header set.
C10_ProxyRelaysUpstream ==
    (Served /\ dispatch.upstream_answer # None
       /\ dispatch.upstream_answer[1] \notin MalformedAnswers) =>
        LET raw == dispatch.upstream_answer[1]
        IN /\ written[1].status = UpstreamStatus(raw)
           /\ written[1].body = UpstreamBody(raw)
           /\ written[1].content_type = UpstreamContentType(raw)
           /\ PermissiveCors \subseteq written[1].headers

----------------------------------------------------------------------------
(* Properties of the chunked decoder *)

\* C11: decoding the chunked coding of non-empty chunks c1..cn gives exactly
\* their concatenation, whatever follows the zero-length chunk.
C11_ChunkedRoundTrip ==
    decoded # None => decoded[1] = Concat(chunks)

\* C11 witness: two chunks were decoded, the first with a two-digit length,
\* the second with data that reads like the last chunk, and bytes that read
\* like a further chunk followed the zero-length chunk
C11_Witness ==
    /\ decoded # None
    /\ chunks = <<LongChunk, <<"0", CR, LF>>>>
    /\ decoded[1] = LongChunk \o <<"0", CR, LF>>
    /\ FindSub(encoded[1], <<"1", "A">> \o CRLF) = 1
    /\ FindSub(encoded[1], <<"Z">> \o CRLF \o CRLF) > 0

----------------------------------------------------------------------------
(* Properties of faults, failures and the middleware pipeline *)

\* C12: when the handler of the matched Custom route panics the client gets
\* a 500 response, the worker thread does not die of it (Client::handle
\* returns to the worker loop), and no guard of the shared route tables is
\* poisoned, so every other worker can still lock them.
C12_CustomFaultIs500 ==
    /\ ~poisoned
    /\ pc = "panicked" => dispatch.via # "Custom"
    /\ (request # None /\ dispatch.via = "Custom" /\ dispatch.panicked) =>
          /\ pc = "returned"
          /\ written # None
          /\ written[1].status = InternalServerError

\* C12 witness: the second request on a connection met a panicking handler
\* and was answered 500
C12_Witness ==
    /\ Served
    /\ i = 1
    /\ dispatch.via = "Custom"
    /\ dispatch.panicked
    /\ written[1].status = InternalServerError
    /\ sent = 2
    /\ ~poisoned

\* a proxied request that failed: the URL did not parse or the connect
\* failed (nothing was sent upstream), the upstream gave no bytes, or bytes
\* that are no HTTP response
ProxyFailed ==
    /\ dispatch.via = "Proxy"
    /\ \/ dispatch.upstream = None
       \/ dispatch.upstream_answer = None
       \/ dispatch.upstream_answer[1] \in MalformedAnswers

\* C13: every failure of a proxied request is answered 502, and the worker
\* survives it.
C13_ProxyFailureIs502 ==
    (request # None /\ ProxyFailed) =>
        /\ pc = "returned"
        /\ written # None
        /\ written[1].status = BadGateway

Applies(mw, req) ==
    /\ mw.route = Wildcard \/ mw.route = req.route
    /\ mw.domain = Wildcard \/ (req.host # None /\ mw.domain = req.host[1])

Range(seq) == { seq[k] : k \in 1..Len(seq) }

\* C15: in the request phase an entry with a request function is run if and
\* only if it applies to the request.
C15_RequestPhaseAppliesOnMatch ==
    Served =>
        \A k \in 1..Len(middleware) :
            middleware[k].f \in {"Request", "Both"} =>
                (k \in Range(ran.request) <=> Applies(middleware[k], request[1]))

\* C16: in the response phase an entry with a response function is run if
\* and only if it applies to the request of the exchange.
C16_ResponsePhaseAppliesOnMatch ==
    Served =>
        \A k \in 1..Len(middleware) :
            middleware[k].f \in {"Response", "BothResponse", "Both", "ResponseBothWithRoutes"} =>
                (k \in Range(ran.response) <=> Applies(middleware[k], request[1]))

StrictlyIncreasing(seq) == \A j, k \in 1..Len(seq) : j < k => seq[j] < seq[k]

\* C17: in each phase the entries run are visited in the order of the list,
\* none twice, and the three built-in entries stand at the front of the
\* list, ahead of every user-supplied one.
C17_RegistrationOrder ==
    /\ Len(middleware) >= Len(Middlewares)
    /\ SubSeq(middleware, 1, Len(Middlewares)) = Middlewares
    /\ \A k \in Len(Middlewares) + 1 .. Len(middleware) : middleware[k].name = "user"
    /\ StrictlyIncreasing(ran.request)
    /\ StrictlyIncreasing(ran.response)
    /\ Range(ran.request) \cup Range(ran.response) \subseteq 1..Len(middleware)

\* C17 witness: a user-supplied request+response pair ran in both phases,
\* each time behind the built-in entries of that phase
C17_Witness ==
    /\ Served
    /\ Len(middleware) = 4
    /\ middleware[4].f = "Both"
    /\ ran.request = <<1, 4>>
    /\ ran.response = <<2, 3, 4>>

\* C18: when the route list of the domain the request was matched to has an
\* Error route registered for the final status code, the response sent has
\* that route's content as body and the same status; otherwise the response
\* of the dispatcher is sent unchanged.
C18_ErrorPageSubstitution ==
    (Served /\ dispatch.table # None) =>
        LET errs == { k \in 1..Len(UsedRoutes) :
                        /\ UsedRoutes[k].route_type = "Error"
                        /\ UsedRoutes[k].status_code = dispatch.response.status }
        IN IF errs # {}
           THEN /\ written[1].status = dispatch.response.status
                /\ \E k \in errs : written[1].body = UsedRoutes[k].content[1]
           ELSE written[1] = dispatch.response

----------------------------------------------------------------------------
(* Properties of TLS connections *)

\* C19: on a TLS connection at most one handshake is made, and the session
\* stored after the first request is the one every later request is read
\* through: it is never replaced by a new session object.
C19_HandshakeOnce ==
    [][ /\ tls'.handshakes <= 1
        /\ tls.tls_connection # None => tls'.tls_connection = tls.tls_connection ]_vars

\* C20: a Client::handle call whose TLS handshake fails parses no request,
\* runs no middleware and no handler and writes nothing, and after it the
\* worker loop ends without a further read or write.
C20_HandshakeFailureCloses ==
    [][ tls'.failed =>
          /\ request' = None
          /\ dispatch' = NoDispatch
          /\ ran' = NoRan
          /\ written' = None
          /\ sent' = sent
          /\ ret' = None
          /\ pc' = IF tls.failed THEN "closed" ELSE "returned" ]_vars

\* C20 witness: the handshake of a new connection failed and the connection
\* was closed with nothing written
C20_Witness ==
    /\ tls.tls_config
    /\ tls.failed
    /\ tls.handshakes = 0
    /\ pc = "closed"
    /\ sent = 0

----------------------------------------------------------------------------
(* Properties of the redirect constructor *)

\* C21: HTTPResponse::redirect(location, permanent) returns a response whose
\* Location header equals location and whose status is TemporaryRedirect (307)
\* when permanent is false and PermanentRedirect (308) when permanent is true.
C21_RedirectStatus ==
    [][ \A location \in Locations, permanent \in BOOLEAN :
          RespRedirect(location, permanent) =>
             /\ get_header(resp'.values, "Location") = Some(location)
             /\ resp'.status_code =
                   IF permanent THEN PermanentRedirect ELSE TemporaryRedirect ]_vars

----------------------------------------------------------------------------
(* Properties of the worker's request cycle *)

\* the response Client::handle writes when the three phases run once each, in
\* the order request middleware, routing, response middleware
PhasesInOrder(req, env) ==
    LET mw == apply_request_middleware(req)
        routed == handle_routing(mw.request, env)
    IN apply_response_middleware(req, routed.response).response

\* C22: for every successfully parsed request the worker runs request
\* middleware, routing and dispatch, response middleware and the write, each
\* once and in this order; exactly one response is written per parsed request,
\* before the next request is read from the connection.
C22_OneResponsePerRequest ==
    [][ (pc = "handle" /\ request' # None) =>
           /\ pc' = "returned"
           /\ sent' = sent + 1
           /\ \E env \in Envs : written' = Some(PhasesInOrder(request'[1], env)) ]_vars

\* a read or a write on the connection has failed, or the peer has closed it
IoFailed == tls.broken \/ (pc = "returned" /\ ret = None /\ dispatch.via = "none")

\* C23: after a read error, a zero-byte read or a write error the worker does
\* no further read or write on the connection and its loop ends (Closed); the
\* shared route and middleware state is unaffected.
C23_IoFailureCloses ==
    [][ IoFailed =>
           /\ pc' = "closed"
           /\ sent' = sent
           /\ request' = None
           /\ domains' = domains
           /\ middleware' = middleware ]_vars

----------------------------------------------------------------------------
(* Properties of the request reader and of the request body *)

\* C24: in plain mode the bytes handed to the parser for one request always
\* contain the complete header block (reading continues until CRLFCRLF has
\* arrived), so a request delivered in several segments is parsed as one
\* request and never as a truncated one.
C24_CompleteHeaderBlockRead ==
    handed # None =>
        /\ find_header_end(handed[1]) # None
        /\ handed[1] \in ClientMessages

\* C28: HTTPRequest::parse sets the body only when Content-Length parses as a
\* non-negative integer n, and the body is then exactly the n bytes that follow
\* the header terminator CRLFCRLF, also when they contain line breaks; with no
\* Content-Length, or one that does not parse, the body is absent.
C28_BodyIsContentLengthBytes ==
    (handed # None /\ handed[1] \in ClientMessages /\ parse(handed[1]) # None) =>
        LET m == handed[1]
            he == find_header_end(m)[1]
            lengths == ContentLengthsOf(SubSeq(m, 1, he))
            following == SubSeq(m, he + 5, Len(m))
        IN IF lengths = {}
           THEN parse_body(m) = None
           ELSE \A n \in lengths :
                   Len(following) >= n => parse_body(m) = Some(SubSeq(following, 1, n))


\* the locks a thread is about to acquire, and whether it has to wait for one
Wants(t) ==
    IF t = Main
    THEN IF tpc[t].at = "idle" /\ TotalRoutes < MaxRoutes THEN {DomainsLock}
         ELSE IF tpc[t].at = "entry" THEN {RoutesLock(tpc[t].domain[1])}
         ELSE {}
    ELSE IF tpc[t].at \in {"idle", "routed"} THEN {DomainsLock} ELSE {}

Blocked(t) == \E l \in Wants(t) : holder[l] # None /\ holder[l] # Some(t)

\* the positions at which a thread reads or writes a route list
Accesses(t) ==
    IF t = Main THEN tpc[t].at \in {"guard", "entry", "routes", "pushed"}
    ELSE tpc[t].at \in {"guard", "lookup", "middleware"}

MapOnly(guard, d) == [x \in {d} |-> guard[d]]

\* the domains whose entry a step adds or changes
Touched == { d \in DOMAIN domains' : d \notin DOMAIN domains \/ domains'[d] # domains[d] }

\* C26: a request whose Host has its own entry in the domain map is dispatched
\* from that entry alone (the dispatch is the one a map holding only that
\* entry gives, every route of the entry was registered for that domain, and
\* the response written is the dispatched one); and a step that registers a
\* route under one domain leaves the route list of every other domain, and
\* the dispatch of every request to such a domain, unchanged.
C26_VirtualHostIsolation ==
    /\ [] ( /\ \A d \in DOMAIN domains : \A k \in 1..Len(domains[d]) :
                   domains[d][k].domain = d
            /\ ( /\ pc = "returned" /\ request # None /\ request[1].host # None
                 /\ request[1].host[1] \in DOMAIN domains )
               => /\ dispatch.table = request[1].host
                  /\ \E env \in Envs :
                        dispatch = route_under(MapOnly(domains, request[1].host[1]),
                                               request[1], env)
                  /\ written = Some(dispatch.response) )
    /\ [][ \A e \in DOMAIN domains :
             Touched \ {e} # {} =>
                /\ domains'[e] = domains[e]
                /\ \A req \in Requests : req.host = Some(e) =>
                      \A env \in Envs :
                         route_under(domains', req, env) = route_under(domains, req, env)
         ]_vars

\* C26 witness: a request for a path the default domain has a file route for,
\* sent to another domain with an entry of its own, finds no route
C26_Witness ==
    /\ pc = "returned" /\ request # None /\ request[1].host # None
    /\ request[1].host[1] # BaseDomain
    /\ request[1].host[1] \in DOMAIN domains
    /\ dispatch.via = "NoRoute"
    /\ written # None /\ written[1].status = NotFound
    /\ route_under(domains, [request[1] EXCEPT !.host = Some(BaseDomain)], NoUpstream).via
          = "File"


\* C27: every serialized response, with or without a body and whatever
\* builder calls produced it, has a header block whose Content-Length lines
\* all carry one value, the number of bytes that follow the header block.
C27_ContentLengthAlways ==
    wire # None =>
        LET w == wire[1]
            he == find_header_end(w)
        IN /\ he # None
           /\ ContentLengthsOf(SubSeq(w, 1, he[1])) = { Len(w) - (he[1] + 4) }


\* the components of a path after "." and empty components are dropped and
\* each ".." has removed the component before it (a ".." with nothing before
\* it stays, pointing above the start)
RECURSIVE Resolve(_, _)
Resolve(path, acc) ==
    IF path = <<>> THEN acc
    ELSE IF path[1] \in {"/", "."} THEN Resolve(Tail(path), acc)
    ELSE IF path[1] = ".."
    THEN IF acc # <<>> /\ acc[Len(acc)] # ".."
         THEN Resolve(Tail(path), SubSeq(acc, 1, Len(acc) - 1))
         ELSE Resolve(Tail(path), Append(acc, ".."))
    ELSE Resolve(Tail(path), Append(acc, path[1]))

IsAbsolute(path) == path # <<>> /\ path[1] = "/"

\* whether the file named by path lies in folder or below it
Inside(path, folder) ==
    /\ IsAbsolute(path) = IsAbsolute(folder)
    /\ starts_with(Resolve(path, <<>>), Resolve(folder, <<>>))

\* C29: whenever the Static dispatcher has answered a request, the file it
\* read lies inside the folder registered for the matched prefix.
C29_StaticStaysInFolder ==
    (pc = "returned" /\ request # None /\ dispatch.via = "Static") =>
        Inside(dispatch.file[1], static_routes(UsedRoutes)[dispatch.pattern[1]])


\* the URL the proxy dispatcher has built for the request it answered
ProxiedUrl ==
    proxy_route(UsedRoutes)[dispatch.pattern[1]]
       \o strip_prefix_or(request[1].route, dispatch.pattern[1])

\* spellings of the two schemes
HttpSpellings == { <<"http">>, <<"HTTP">>, <<"Http">> }
HttpsSpellings == { <<"https">>, <<"HTTPS">> }

\* the text after "://" up to the first "/", and the text after its first ":"
AuthorityOf(url) ==
    LET rest == SubSeq(url, FindSub(url, <<":", "/", "/">>) + 3, Len(url))
    IN IF Find(rest, "/") = 0 THEN rest ELSE SubSeq(rest, 1, Find(rest, "/") - 1)

PortTextOf(url) ==
    LET a == AuthorityOf(url)
    IN IF Find(a, ":") = 0 THEN None ELSE Some(SubSeq(a, Find(a, ":") + 1, Len(a)))

HasPath(url) ==
    Find(SubSeq(url, FindSub(url, <<":", "/", "/">>) + 3, Len(url)), "/") # 0

\* C30: for the URL of a proxied request, parse_url succeeds only if the URL
\* has the separator "://" after a scheme spelled http or https in any case
\* and its port, when given, is a number of 0..65535; on success the port is
\* the given one, else 80 for http and 443 for https, the path starts with
\* "/" and is "/" when the URL has none, and these are the fields the
\* connection is made with; on failure host, port, path and scheme are as
\* Proxy::new left them, no connection is made and the answer is 502.
C30_ParseUrl ==
    (Served /\ dispatch.via = "Proxy") =>
        LET url == ProxiedUrl
            fresh == Proxy_new(url)
            r == parse_url(fresh)
            sep == FindSub(url, <<":", "/", "/">>)
            scheme == SubSeq(url, 1, sep - 1)
            port == PortTextOf(url)
        IN IF r.ok
           THEN /\ sep # 0
                /\ scheme \in HttpSpellings \cup HttpsSpellings
                /\ r.proxy.scheme = IF scheme \in HttpSpellings THEN "HTTP" ELSE "HTTPS"
                /\ IF port = None
                   THEN r.proxy.port = IF scheme \in HttpSpellings THEN 80 ELSE 443
                   ELSE /\ Len(port[1]) = 1
                        /\ DecimalWord(port[1][1]) \in 0..U16Max
                        /\ r.proxy.port = DecimalWord(port[1][1])
                /\ r.proxy.path # <<>> /\ r.proxy.path[1] = "/"
                /\ ~HasPath(url) => r.proxy.path = <<"/">>
                /\ dispatch.upstream # None =>
                      /\ dispatch.upstream[1].port = r.proxy.port
                      /\ dispatch.upstream[1].path = r.proxy.path
                      /\ dispatch.upstream[1].scheme = r.proxy.scheme
                      /\ dispatch.upstream[1].host = r.proxy.host
           ELSE /\ r.proxy = fresh
                /\ dispatch.upstream = None
                /\ written # None /\ written[1].status = BadGateway
                /\ dispatch.response.body = <<"<h1>502 Bad Gateway - Invalid URL</h1>">>

\* C30 witness: a URL with the scheme spelled HTTPS and neither port nor
\* path was parsed and the upstream was reached on port 443 with path "/"
C30_Witness ==
    /\ Served /\ dispatch.via = "Proxy"
    /\ ProxiedUrl = <<"HTTPS", ":", "/", "/", "example.test">>
    /\ dispatch.upstream # None
    /\ dispatch.upstream[1].port = 443
    /\ dispatch.upstream[1].path = <<"/">>
    /\ dispatch.upstream[1].scheme = "HTTPS"


\* whether a header block has a Transfer-Encoding line that names chunked
DeclaresChunked(block) ==
    \E k \in 1..Len(lines(block)) :
        /\ line_starts_with(lines(block)[k], "transfer-encoding")
        /\ line_contains_chunked(lines(block)[k])

\* C31: the body taken from an upstream answer starts after the first
\* CRLFCRLF; with a Transfer-Encoding line naming chunked it is the payload
\* of the chunked coding, also when a Content-Length is declared; otherwise,
\* with Content-Length n declared, it is the first min(n, available) bytes;
\* otherwise it is all the bytes after the boundary.
C31_ResponseFraming ==
    (encoded # None /\ decoded # None) =>
        LET w == encoded[1]
            first == FindSub(w, <<CR, LF, CR, LF>>)
            block == SubSeq(w, 1, first - 1)
            after == SubSeq(w, first + 4, Len(w))
            lengths == ContentLengthsOf(block)
        IN /\ first # 0
           /\ IF DeclaresChunked(block)
              THEN \A cs \in FramedChunks :
                      after = ChunkedCoding(cs, FALSE, <<>>) => decoded[1] = Concat(cs)
              ELSE IF lengths # {}
              THEN \A n \in lengths :
                      decoded[1] = SubSeq(after, 1, IF n <= Len(after) THEN n ELSE Len(after))
              ELSE decoded[1] = after

\* C31 witness: an answer that declares both chunked coding and a
\* Content-Length of 2 was decoded to the three bytes of its two chunks
C31_Witness ==
    /\ encoded # None /\ decoded = Some(<<"W", "i", "k">>)
    /\ DeclaresChunked(SubSeq(encoded[1], 1, FindSub(encoded[1], <<CR, LF, CR, LF>>) - 1))
    /\ ContentLengthsOf(SubSeq(encoded[1], 1, FindSub(encoded[1], <<CR, LF, CR, LF>>) - 1))
          = {2}


\* the (name, value) pairs of the header lines of a request as sent
SentHeaders(raw) ==
    LET ls == Tail(lines(raw))
    IN { <<ls[k][1], SubSeq(ls[k], 4, Len(ls[k]))>> :
           k \in { j \in 1..Len(ls) : Len(ls[j]) >= 3 /\ ls[j][2] = ":" } }

\* header names and their spellings in other letter case
HostSpellings == {"Host", "host", "HOST"}
ContentTypeSpellings == {"Content-Type", "content-type", "CONTENT-TYPE"}
NameSpellings == HostSpellings \cup ContentTypeSpellings \cup {"Accept"}

SameName(M, N) ==
    \/ M = N
    \/ {M, N} \subseteq HostSpellings
    \/ {M, N} \subseteq ContentTypeSpellings

\* what the claim says of a handled request, for the headers `unique` of
\* those sent: names are stored as sent; a lookup under any spelling of the
\* name gives the value, under every iteration order of the map; a name no
\* sent header matches gives nothing; the Host found this way is the one the
\* request carries and the domain is resolved from
HeaderLookup(unique) ==
    LET raw == handed[1]
        values == header_map_of(raw)
        pairs == SentHeaders(raw)
        orders == Orders(DOMAIN values)
    IN /\ DOMAIN values = { <<h[1]>> : h \in pairs }
       /\ \A h \in unique : \A M \in NameSpellings : SameName(M, h[1]) =>
             \A order \in orders : get_header_in(values, <<M>>, order) = Some(h[2])
       /\ \A M \in NameSpellings : (\A h \in pairs : ~SameName(M, h[1])) =>
             \A order \in orders : get_header_in(values, <<M>>, order) = None
       /\ \A h \in unique : h[1] \in HostSpellings =>
             /\ request[1].host = Some(h[2])
             /\ dispatch.table = ResolveDomain(domains, h[2])

HeaderHandled == pc = "returned" /\ handed # None /\ request # None

C33_DecodeNeverFaults ==
    encoded # None =>
        /\ pc # "panicked"
        /\ decoded # None => decoded[1] = Concat(chunks)


\* C34: a worker whose dispatch waits on a custom handler or on proxy network
\* I/O does not hold the lock of the domain map; while it waits, a worker of
\* another connection that is about to route can take the lock; and the lock
\* is never poisoned.
C34_NoLockAcrossDispatch ==
    /\ \A w \in Workers : tpc[w].at = "blocked" =>
          /\ holder[DomainsLock] # Some(w)
          /\ \A v \in Workers \ {w} : tpc[v].at = "idle" =>
                \/ ENABLED WorkerLockDomains(v, BaseDomain)
                \/ \E u \in Threads \ {w} : holder[DomainsLock] = Some(u)
    /\ ~poisoned

\* C35: a well-formed request without a Host header, with or without a
\* Cookie header, is processed without fault: the parse returns a request,
\* the request middleware runs, the request is routed with the route table
\* of the default domain and a response is written
C35_NoHostNoFault ==
    ( /\ handed # None
      /\ pc \in {"returned", "panicked"}
      /\ handed[1] \in CookieRawRequests
      /\ get_header(header_map_of(handed[1]), <<"Host">>) = None ) =>
        /\ pc = "returned"
        /\ request = parse(handed[1])
        /\ written # None
        /\ dispatch = route_under([d \in {BaseDomain} |-> domains[BaseDomain]],
                                  request[1], NoUpstream)

\* the key add_subdomain_router(d) puts into the domain map
SubKey(d) == to_lowercase(d) \o <<".">> \o BaseDomain

\* a route for the request's path is registered with Some(d) and the router
\* of d has been added
SubRouteRegistered(d) ==
    /\ SubKey(d) \in DOMAIN domains
    /\ d \in DOMAIN domains
    /\ request # None
    /\ \E k \in 1..Len(domains[d]) :
          /\ domains[d][k].route = request[1].route
          /\ domains[d][k].domain = d

\* the request was answered from the file route registered with Some(d)
DispatchedToSubRoute(d) ==
    /\ dispatch.via = "File"
    /\ dispatch.table = Some(d) \/ dispatch.table = Some(SubKey(d))
    /\ dispatch.response = Response_new(HtmlHi, Some(Ok))

\* a step of add_subdomain_router keeps every key of the map with its
\* routes, and changes nothing when the key of d is present
SubdomainRouterKeeps(d) ==
    add_subdomain_router(d) =>
       /\ \A k \in DOMAIN domains : k \in DOMAIN domains' /\ domains'[k] = domains[k]
       /\ SubKey(d) \in DOMAIN domains'
       /\ SubKey(d) \in DOMAIN domains => domains' = domains

\* C36 (first half): after add_subdomain_router(d) and a registration with
\* Some(d), a request whose Host is "<d in lower case>.<base domain>" is
\* dispatched to that route
C36_SubdomainRouteServed ==
    \A d \in SubNames :
       ( /\ pc = "returned"
         /\ handed # None
         /\ SubRouteRegistered(d)
         /\ request[1].host = Some(SubKey(d)) ) => DispatchedToSubRoute(d)

\* C36 (second half): add_subdomain_router is idempotent and never discards
\* routes already registered
C36_SubdomainRouterIdempotent ==
    [][\A d \in SubNames : SubdomainRouterKeeps(d)]_vars

\* C36: after add_subdomain_router(d) followed by a route registration that
\* passes Some(d) as its domain, a request whose Host is
\* "<d in lower case>.<base domain>" is dispatched to that route;
\* add_subdomain_router is idempotent and never discards routes already
\* registered for that subdomain
C36_SubdomainRouting ==
    /\ []C36_SubdomainRouteServed
    /\ C36_SubdomainRouterIdempotent

====
